---- MODULE Spec2Model ----
(***************************************************************************)
(* A model of scripts/generate-elus.py: the batch that matches the rows of *)
(* the HATVP index to the persons of elus.json, selects the most recent    *)
(* patrimony (DSP/DSPM) and interests (DI/DIM) declaration of each person, *)
(* consolidates the parsed documents into one profile, summarises it and   *)
(* stores the summary in elus.json.                                        *)
(*                                                                         *)
(* Text that the code inspects character by character (names) is a         *)
(* sequence of characters; a character is a one-token string.  Text the    *)
(* code only copies or tests for emptiness is a TLA+ string.               *)
(***************************************************************************)
EXTENDS Integers, Sequences, FiniteSets, TLC

\* ------------------------------------------------------------------------
\* Bounds of the model
\* ------------------------------------------------------------------------

\* Longest index explored by the selection specification.
MaxRows == 3

\* Longest family name explored by the matching specification.
MaxNameLen == 4

\* Longest index explored by the consolidation specifications.
MaxIndex == 2

\* Number of successive invocations of main explored by SpecRuns.
MaxRuns == 2

\* Records in a profile handed to build_resume_complet alone.
MaxRecords == 3

\* Fields of an item of a document handed to the parsers alone.
MaxFields == 2

\* Characters of a text handed to parse_montant alone.
MaxTextLen == 4

\* ------------------------------------------------------------------------
\* Program constants
\* ------------------------------------------------------------------------

SAVE_INTERVAL == 100

\* scrape-photos.py, line 62: the least size of an image, in bytes.
MIN_IMAGE_SIZE == 2048

WANTED_TYPES == {"DSP", "DSPM", "DI", "DIM"}

DSP_TYPES_all == WANTED_TYPES

DSP_TYPES == {"DSP", "DSPM"}

DI_TYPES == {"DI", "DIM"}

\* Python's None where the code tests `is None` or falls back with `or`.
None == <<>>

\* ------------------------------------------------------------------------
\* Characters and unicodedata
\* ------------------------------------------------------------------------

\* "a_grave" is U+00E0, "A_grave" is U+00C0, "e_acute" is U+00E9,
\* "e_diaeresis" is U+00EB, "comb_grave" is U+0300, "comb_acute" is U+0301 and
\* "comb_diaeresis" is U+0308 (all three of category Mn), "nbsp" is U+00A0.
WhiteSpace == {" ", "nbsp"}

UpperLetters == <<"A", "B", "D", "E", "J", "M", "N", "O", "P", "R", "T", "U", "Y">>

LowerLetters == <<"a", "b", "d", "e", "j", "m", "n", "o", "p", "r", "t", "u", "y">>

\* unicodedata.normalize("NFD", c) for one character.
NFD_char(c) ==
    CASE c = "a_grave" -> <<"a", "comb_grave">>
      [] c = "A_grave" -> <<"A", "comb_grave">>
      [] c = "e_acute" -> <<"e", "comb_acute">>
      [] c = "e_diaeresis" -> <<"e", "comb_diaeresis">>
      [] OTHER -> <<c>>

\* unicodedata.category(c) == "Mn"
IsMn(c) == c \in {"comb_grave", "comb_acute", "comb_diaeresis"}

\* str.lower() for one character.
lower_char(c) ==
    IF \E k \in 1..Len(UpperLetters) : UpperLetters[k] = c
    THEN LowerLetters[CHOOSE k \in 1..Len(UpperLetters) : UpperLetters[k] = c]
    ELSE IF c = "A_grave" THEN "a_grave"
    ELSE c

RECURSIVE NFD(_)
NFD(s) == IF s = <<>> THEN <<>> ELSE NFD_char(Head(s)) \o NFD(Tail(s))

RECURSIVE strip_marks(_)
strip_marks(s) ==
    IF s = <<>> THEN <<>>
    ELSE IF IsMn(Head(s)) THEN strip_marks(Tail(s))
    ELSE <<Head(s)>> \o strip_marks(Tail(s))

lower(s) == [k \in 1..Len(s) |-> lower_char(s[k])]

\* The character class [-\s] of the pattern on line 238.
IsSep(c) == c = "-" \/ c \in WhiteSpace

RECURSIVE skip_seps(_)
skip_seps(s) == IF s # <<>> /\ IsSep(Head(s)) THEN skip_seps(Tail(s)) ELSE s

\* re.sub(r"[-\s]+", " ", s): every maximal run of separators becomes one space.
RECURSIVE sub_seps(_)
sub_seps(s) ==
    IF s = <<>> THEN <<>>
    ELSE IF IsSep(Head(s)) THEN <<" ">> \o sub_seps(skip_seps(Tail(s)))
    ELSE <<Head(s)>> \o sub_seps(Tail(s))

RECURSIVE lstrip(_)
lstrip(s) == IF s # <<>> /\ Head(s) \in WhiteSpace THEN lstrip(Tail(s)) ELSE s

RECURSIVE rstrip(_)
rstrip(s) ==
    IF s # <<>> /\ s[Len(s)] \in WhiteSpace
    THEN rstrip(SubSeq(s, 1, Len(s) - 1))
    ELSE s

\* str.strip()
strip(s) == rstrip(lstrip(s))

\* A normalizer that keeps the leading and trailing blank.
normalize_name_unstripped(s) == sub_seps(lower(strip_marks(NFD(s))))

\* A normalizer that forgets to fold the case.
normalize_name_nolower(s) == strip(sub_seps(strip_marks(NFD(s))))

normalize_name(s) == strip(sub_seps(lower(strip_marks(NFD(s)))))

\* ------------------------------------------------------------------------
\* Filing dates
\* ------------------------------------------------------------------------

\* A date text is its separator and its numeric fields in the order written:
\* "10/01/2022" is [sep |-> "/", f |-> <<10, 1, 2022>>], "2022-01-10" is
\* [sep |-> "-", f |-> <<2022, 1, 10>>], "10/01/2022 09:30:00" has six
\* fields, and the empty text has none.
NoDate == [sep |-> "", f |-> <<>>]

\* datetime.min, as <<year, month, day, hour, minute, second>>.
datetime_min == <<1, 1, 1, 0, 0, 0>>

\* The days of a month of the Gregorian calendar.
is_leap(y) == y % 4 = 0 /\ (y % 100 # 0 \/ y % 400 = 0)

days_in_month(y, m) ==
    IF m = 2 THEN (IF is_leap(y) THEN 29 ELSE 28)
    ELSE IF m \in {4, 6, 9, 11} THEN 30
    ELSE 31

\* The dates and times datetime.strptime accepts (line 263).
ValidYMD(y, m, d) ==
    y \in 1..9999 /\ m \in 1..12 /\ d >= 1 /\ d <= days_in_month(y, m)

ValidHMS(h, m, s) == h \in 0..23 /\ m \in 0..59 /\ s \in 0..59

\* The formats of line 261 tried in order; datetime.min when none parses.
parse_date_text(t) ==
    IF t.sep = "/" /\ Len(t.f) = 6 /\ ValidYMD(t.f[3], t.f[2], t.f[1])
       /\ ValidHMS(t.f[4], t.f[5], t.f[6])
    THEN <<t.f[3], t.f[2], t.f[1], t.f[4], t.f[5], t.f[6]>>
    ELSE IF t.sep = "/" /\ Len(t.f) = 3 /\ ValidYMD(t.f[3], t.f[2], t.f[1])
    THEN <<t.f[3], t.f[2], t.f[1], 0, 0, 0>>
    ELSE IF t.sep = "-" /\ Len(t.f) = 3 /\ ValidYMD(t.f[1], t.f[2], t.f[3])
    THEN <<t.f[1], t.f[2], t.f[3], 0, 0, 0>>
    ELSE datetime_min

\* Order of two datetimes (six fields, most significant first).
RECURSIVE dt_less(_, _)
dt_less(a, b) ==
    IF a = <<>> THEN FALSE
    ELSE IF Head(a) # Head(b) THEN Head(a) < Head(b)
    ELSE dt_less(Tail(a), Tail(b))

dt_leq(a, b) == a = b \/ dt_less(a, b)

\* ------------------------------------------------------------------------
\* Index rows
\* ------------------------------------------------------------------------

\* A row of liste.csv after the column-name fallbacks of lines 249, 250, 260,
\* 274, 278 and 289: nom, prenom (character sequences), typeDeclaration,
\* dateDepot (a date text), fichier (the published file, NoFile when the row
\* names none) and ident, an external identifier of the declarant carried by
\* the index in a column the program never reads ("" when absent).
NoFile == [n |-> 0, body |-> "", type |-> "", date |-> NoDate]

row_nom(row) == strip(row.nom)

row_prenom(row) == strip(row.prenom)

parse_date(row) == parse_date_text(row.dateDepot)

\* str.upper() on the type codes the index carries.
upper(t) ==
    CASE t = "dsp" -> "DSP"
      [] t = "dspm" -> "DSPM"
      [] t = "di" -> "DI"
      [] t = "dim" -> "DIM"
      [] OTHER -> t

get_declaration_type(row) == upper(row.typeDeclaration)

\* The URL of the row's document; NoFile stands for the None of line 284.
get_xml_url(row) == row.fichier

\* The rows of the index whose names match, in index order (lines 247-256).
RECURSIVE matched_rows(_, _, _)
matched_rows(index, norm_prenom, norm_nom) ==
    IF index = <<>> THEN <<>>
    ELSE LET row == Head(index)
             rest == matched_rows(Tail(index), norm_prenom, norm_nom)
         IN  IF row_nom(row) = <<>> THEN rest
             ELSE IF normalize_name(row_nom(row)) = norm_nom
                     /\ normalize_name(row_prenom(row)) = norm_prenom
             THEN <<row>> \o rest
             ELSE rest

\* Position of the first row of s whose date no other row of s exceeds.
first_latest(s) ==
    CHOOSE k \in 1..Len(s) :
        /\ \A j \in 1..Len(s) : dt_leq(parse_date(s[j]), parse_date(s[k]))
        /\ \A j \in 1..(k - 1) : parse_date(s[j]) # parse_date(s[k])

first_earliest(s) ==
    CHOOSE k \in 1..Len(s) :
        /\ \A j \in 1..Len(s) : dt_leq(parse_date(s[k]), parse_date(s[j]))
        /\ \A j \in 1..(k - 1) : parse_date(s[j]) # parse_date(s[k])

remove_at(s, k) == SubSeq(s, 1, k - 1) \o SubSeq(s, k + 1, Len(s))

\* A sort that lost reverse=True: oldest first.
RECURSIVE sort_by_date_asc(_)
sort_by_date_asc(s) ==
    IF s = <<>> THEN <<>>
    ELSE LET k == first_earliest(s)
         IN  <<s[k]>> \o sort_by_date_asc(remove_at(s, k))

\* list.sort(key=parse_date, reverse=True): stable, so rows of equal date keep
\* their index order.
RECURSIVE sort_by_date_desc(_)
sort_by_date_desc(s) ==
    IF s = <<>> THEN <<>>
    ELSE LET k == first_latest(s)
         IN  <<s[k]>> \o sort_by_date_desc(remove_at(s, k))

find_declarations_for_elu(index, prenom, nom) ==
    sort_by_date_desc(matched_rows(index, normalize_name(prenom), normalize_name(nom)))

\* next((r for r in rows if get_declaration_type(r) in types), None)
RECURSIVE first_of_types(_, _)
first_of_types(rows, types) ==
    IF rows = <<>> THEN None
    ELSE IF get_declaration_type(Head(rows)) \in types THEN Head(rows)
    ELSE first_of_types(Tail(rows), types)


\* ------------------------------------------------------------------------
\* Published documents
\* ------------------------------------------------------------------------

\* An absent amount taken for one euro.
amount_absent_as_one(x) == IF x = None THEN 1 ELSE x[1]

\* An amount is None or <<value>>; "x or 0" of lines 1067-1074.
amount(x) == IF x = None THEN 0 ELSE x[1]

NoConjoint ==
    [present |-> FALSE, nom |-> "", prenom |-> "", profession |-> "",
     employeur |-> "", secteur_activite |-> ""]

EmptyConjoint == [NoConjoint EXCEPT !.present = TRUE]

\* The dict {} of line 983; a dict is falsy exactly when it has no key.
NoFamille ==
    [present |-> FALSE, situation_familiale |-> "", conjoint |-> NoConjoint,
     enfants |-> <<>>]

FI_5000 ==
    [type |-> "instrument_financier", description |-> "Actions",
     valeur_euro |-> <<5000>>]

RE_250000 ==
    [type |-> "bien_immobilier", adresse |-> "Paris", valeur_euro |-> <<250000>>]

PRET_100000 ==
    [type |-> "pret_bancaire", etablissement |-> "Banque",
     capital_restant_du_euro |-> <<100000>>]

REVENU_60000 ==
    [type |-> "revenu", employeur |-> "Assemblee",
     montant_annuel_euro |-> <<60000>>]

REVENU_unknown ==
    [type |-> "revenu", employeur |-> "Cabinet", montant_annuel_euro |-> None]

MANDAT_depute == [type |-> "mandat_electif", mandat |-> "Depute"]

EmptyBody ==
    [wellformed |-> TRUE,
     instruments_financiers |-> <<>>, participations_financieres |-> <<>>,
     biens_immobiliers |-> <<>>, prets_bancaires |-> <<>>, autres_biens |-> <<>>,
     revenus_activites |-> <<>>, mandats_electifs |-> <<>>,
     fonctions_dirigeantes |-> <<>>,
     situation_familiale |-> "", conjoint |-> NoConjoint, enfants |-> <<>>,
     observations |-> ""]

\* What the section parsers of lines 355-872 extract from the documents the
\* model publishes.  conjoint.present tells whether the document holds a
\* <conjoint> element (line 828); the element of "D" has no text in any field.
\*   "A"  an initial patrimony declaration; its <revenusDto> states the income
\*        the interests declaration "C" states as well
\*   "B"  an amended patrimony declaration: the instrument of "A" and a house
\*   "C"  an interests declaration
\*   "D"  an amended interests declaration
\*   "X"  a file that is not well-formed XML
Body(b) ==
    CASE b = "A" ->
           [EmptyBody EXCEPT
              !.instruments_financiers = <<FI_5000>>,
              !.revenus_activites = <<REVENU_60000>>,
              !.situation_familiale = "Marie",
              !.conjoint = [EmptyConjoint EXCEPT !.nom = "Durand", !.prenom = "Anne"],
              !.enfants = <<[date_naissance |-> "2010", a_charge |-> TRUE]>>,
              !.observations = "Neant"]
      [] b = "B" ->
           [EmptyBody EXCEPT
              !.instruments_financiers = <<FI_5000>>,
              !.biens_immobiliers = <<RE_250000>>]
      [] b = "C" ->
           [EmptyBody EXCEPT
              !.revenus_activites = <<REVENU_60000, REVENU_unknown>>,
              !.mandats_electifs = <<MANDAT_depute>>,
              !.situation_familiale = "Pacse",
              !.conjoint = [EmptyConjoint EXCEPT !.nom = "Martin", !.profession = "Avocat"],
              !.enfants = <<[date_naissance |-> "2012", a_charge |-> FALSE]>>]
      [] b = "D" ->
           [EmptyBody EXCEPT
              !.prets_bancaires = <<PRET_100000>>,
              !.mandats_electifs = <<MANDAT_depute>>,
              !.conjoint = EmptyConjoint]
      [] OTHER -> [EmptyBody EXCEPT !.wellformed = FALSE]

\* parse_informations_familiales: the dict always has its three keys.
parse_informations_familiales(body) ==
    [present |-> TRUE,
     situation_familiale |-> body.situation_familiale,
     conjoint |-> body.conjoint,
     enfants |-> body.enfants]

\* The {} of line 888.
ParseFailure == [ok |-> FALSE]

\* A parser that takes a file that is not well-formed for an empty document.
parse_declaration_xml_lenient(url) ==
    LET body == Body(url.body)
    IN  [ok |-> TRUE,
         uuid |-> url.n,
         url_xml |-> url,
         type_declaration |-> url.type,
         type_declaration_label |-> url.type,
         date_depot |-> url.date,
         instruments_financiers |-> body.instruments_financiers,
         participations_financieres |-> body.participations_financieres,
         biens_immobiliers |-> body.biens_immobiliers,
         prets_bancaires |-> body.prets_bancaires,
         autres_biens |-> body.autres_biens,
         revenus_activites |-> body.revenus_activites,
         mandats_electifs |-> body.mandats_electifs,
         fonctions_dirigeantes |-> body.fonctions_dirigeantes,
         famille |-> parse_informations_familiales(body),
         observations |-> body.observations]

\* parse_declaration_xml for the document published at url.  The document
\* states the type and the filing date its index row states.
parse_declaration_xml(url) ==
    LET body == Body(url.body)
    IN  IF ~body.wellformed THEN ParseFailure
        ELSE [ok |-> TRUE,
              uuid |-> url.n,
              url_xml |-> url,
              type_declaration |-> url.type,
              type_declaration_label |-> url.type,
              date_depot |-> url.date,
              instruments_financiers |-> body.instruments_financiers,
              participations_financieres |-> body.participations_financieres,
              biens_immobiliers |-> body.biens_immobiliers,
              prets_bancaires |-> body.prets_bancaires,
              autres_biens |-> body.autres_biens,
              revenus_activites |-> body.revenus_activites,
              mandats_electifs |-> body.mandats_electifs,
              fonctions_dirigeantes |-> body.fonctions_dirigeantes,
              famille |-> parse_informations_familiales(body),
              observations |-> body.observations]

\* ------------------------------------------------------------------------
\* XML documents and xml.etree.ElementTree
\* ------------------------------------------------------------------------

\* An element is its tag, its text (a sequence of characters, empty for the
\* None and the "" of ElementTree, which the code never tells apart) and its
\* child elements in document order.
Element(tag, text, kids) == [tag |-> tag, text |-> text, kids |-> kids]

\* The bytes ET.fromstring rejects (line 885).
NotXML == [tag |-> "", text |-> <<>>, kids |-> <<>>]

\* The text "[Données non publiées]" of line 322, as one token.
Unpublished == <<"[Donnees non publiees]">>

RECURSIVE descendants_of_all(_)
descendants_of_all(els) ==
    IF els = <<>> THEN <<>>
    ELSE <<Head(els)>> \o descendants_of_all(Head(els).kids)
         \o descendants_of_all(Tail(els))

\* The elements below el, in document order.
descendants(el) == descendants_of_all(el.kids)

RECURSIVE children_of_all(_, _)
children_of_all(els, tag) ==
    IF els = <<>> THEN <<>>
    ELSE SelectSeq(Head(els).kids, LAMBDA e : e.tag = tag)
         \o children_of_all(Tail(els), tag)

\* The elements a path of child steps ("nature/label") leads to from els.
RECURSIVE walk(_, _)
walk(els, path) ==
    IF path = <<>> THEN els
    ELSE walk(children_of_all(els, Head(path)), Tail(path))

\* element.findall(".//tag")
findall_deep(el, tag) == SelectSeq(descendants(el), LAMBDA e : e.tag = tag)

\* element.find(path), path relative to the element.
find(el, path) ==
    LET m == walk(<<el>>, path) IN IF m = <<>> THEN None ELSE Head(m)

\* element.find(".//" + path)
find_deep(el, path) ==
    LET m == walk(findall_deep(el, Head(path)), Tail(path))
    IN  IF m = <<>> THEN None ELSE Head(m)

\* Lines 320-324, for the node that find returned.
node_text(node) ==
    IF node # None /\ node.text # <<>>
    THEN LET t == strip(node.text)
         IN  IF t # <<>> /\ t # Unpublished THEN t ELSE <<>>
    ELSE <<>>

\* xml_text(element, path) with the default "".
xml_text(element, path) ==
    IF element = None THEN <<>> ELSE node_text(find(element, path))

\* xml_text(element, ".//" + path)
xml_text_deep(element, path) ==
    IF element = None THEN <<>> ELSE node_text(find_deep(element, path))

\* A resolution that prefers the last name of the list that holds a text.
RECURSIVE last_text(_, _)
last_text(item, paths) ==
    IF paths = <<>> THEN <<>>
    ELSE LET t == last_text(item, Tail(paths))
         IN  IF t # <<>> THEN t ELSE xml_text(item, Head(paths))

\* xml_text(item, p1) or xml_text(item, p2) or ... or ""
RECURSIVE first_text(_, _)
first_text(item, paths) ==
    IF paths = <<>> THEN <<>>
    ELSE LET t == xml_text(item, Head(paths))
         IN  IF t # <<>> THEN t ELSE first_text(item, Tail(paths))

true_text == <<"t", "r", "u", "e">>

xml_bool(element, path) == lower(xml_text(element, path)) = true_text

\* ------------------------------------------------------------------------
\* parse_montant
\* ------------------------------------------------------------------------

Digits == <<"0", "1", "2", "3", "4", "5", "6", "7", "8", "9">>

IsDigit(c) == \E k \in 1..10 : Digits[k] = c

digit_value(c) == (CHOOSE k \in 1..10 : Digits[k] = c) - 1

RECURSIVE digits_value(_)
digits_value(s) ==
    IF s = <<>> THEN 0
    ELSE 10 * digits_value(SubSeq(s, 1, Len(s) - 1)) + digit_value(s[Len(s)])

AllDigits(s) == \A k \in 1..Len(s) : IsDigit(s[k])

\* .replace("\xa0", "").replace(" ", "").replace(",", ".")
RECURSIVE replace_separators(_)
replace_separators(s) ==
    IF s = <<>> THEN <<>>
    ELSE IF Head(s) \in {"nbsp", " "} THEN replace_separators(Tail(s))
    ELSE IF Head(s) = "," THEN <<".">> \o replace_separators(Tail(s))
    ELSE <<Head(s)>> \o replace_separators(Tail(s))

RECURSIVE rstrip_zeros(_)
rstrip_zeros(s) ==
    IF s # <<>> /\ s[Len(s)] = "0" THEN rstrip_zeros(SubSeq(s, 1, Len(s) - 1)) ELSE s

\* float(s) for a text of digits, at most one point and a leading sign; None
\* stands for the ValueError.  A whole amount is <<euros>>; an amount with
\* decimals is <<n, d>>, the number n / 10^d with d as small as can be.
float_of(s) ==
    LET signed == s # <<>> /\ Head(s) \in {"+", "-"}
        body == IF signed THEN Tail(s) ELSE s
        points == {k \in 1..Len(body) : body[k] = "."}
        p == IF points = {} THEN Len(body) + 1 ELSE CHOOSE k \in points : TRUE
        whole == SubSeq(body, 1, p - 1)
        decimals == SubSeq(body, p + 1, Len(body))
        fraction == rstrip_zeros(decimals)
        sign == IF signed /\ Head(s) = "-" THEN -1 ELSE 1
    IN  IF Cardinality(points) > 1 \/ ~AllDigits(whole) \/ ~AllDigits(fraction)
           \/ Len(whole) + Len(decimals) = 0
        THEN None
        ELSE IF fraction = <<>> THEN <<sign * digits_value(whole)>>
        ELSE <<sign * digits_value(whole \o fraction), Len(fraction)>>

\* Lines 332-340.
parse_montant(s) ==
    IF s = <<>> THEN None ELSE float_of(strip(replace_separators(s)))

\* A test that takes every section that is present for a section with items.
is_section_absent(element) == element = None

\* Lines 343-348.
is_section_empty(element) ==
    IF element = None THEN TRUE
    ELSE lower(xml_text(element, <<"neant">>)) = true_text

\* section.findall(".//items/items") or section.findall(".//items")
section_items(section) ==
    LET nested == children_of_all(findall_deep(section, "items"), "items")
    IN  IF nested # <<>> THEN nested ELSE findall_deep(section, "items")

\* any(child.text for child in item)
any_child_text(item) == \E k \in 1..Len(item.kids) : item.kids[k].text # <<>>

\* ------------------------------------------------------------------------
\* Section parsers
\* ------------------------------------------------------------------------

\* The items of a section the loop of its parser does not skip: those with
\* some child text (lines 364-366).
items_with_text(section) == SelectSeq(section_items(section), any_child_text)

\* Lines 368-400.
instrument_of(item) ==
    LET nature_id == first_text(item, <<<<"nature", "id">>, <<"typeInstrument", "id">>>>)
        nature_label ==
            LET t == first_text(item, <<<<"nature", "label">>,
                                        <<"typeInstrument", "label">>>>)
            IN  IF t # <<>> THEN t ELSE nature_id
    IN  [type |-> "instrument_financier",
         nature |-> nature_label,
         nature_code |-> nature_id,
         description |-> first_text(item, <<<<"description">>, <<"denomination">>,
                                            <<"libelle">>, <<"nomEmetteur">>>>),
         valeur_euro |-> parse_montant(first_text(item,
                            <<<<"valeur">>, <<"valeurEstimee">>, <<"montant">>,
                              <<"valeurTotale">>>>)),
         mode_detention |-> first_text(item, <<<<"modeDetention", "label">>,
                                               <<"modeDetention", "id">>>>),
         nombre_titres |-> first_text(item, <<<<"nombreTitres">>, <<"nbTitres">>>>),
         valeur_unitaire_euro |-> parse_montant(xml_text(item, <<"valeurUnitaire">>)),
         isin |-> first_text(item, <<<<"codeISIN">>, <<"isin">>>>),
         devise |-> first_text(item, <<<<"devise">>, <<"devise", "id">>>>),
         date_acquisition |-> first_text(item, <<<<"dateAcquisition">>,
                                                 <<"dateOuverture">>>>),
         etablissement |-> first_text(item, <<<<"etablissement">>,
                                              <<"nomEtablissement">>>>),
         commentaire |-> first_text(item, <<<<"commentaire">>, <<"observation">>>>)]

\* A final test that rejects nothing.
keep_all(record) == TRUE

\* Line 403, negated.
keep_instrument(instrument) ==
    ~(instrument.nature = <<>> /\ instrument.description = <<>>
      /\ instrument.valeur_euro = None)

\* Lines 355-408.
parse_instruments_financiers(root) ==
    LET section == find_deep(root, <<"instrumentsFinanciersDto">>)
    IN  IF is_section_empty(section) THEN <<>>
        ELSE (LET items == items_with_text(section)
              IN  SelectSeq([k \in 1..Len(items) |-> instrument_of(items[k])],
                            keep_instrument))

\* Lines 424-450.
participation_of(item) ==
    [type |-> "participation_financiere",
     nom_societe |-> first_text(item, <<<<"nomSociete">>, <<"denomination">>,
                                        <<"raisonSociale">>>>),
     forme_juridique |-> first_text(item, <<<<"formeJuridique">>,
                                            <<"typeStructure", "label">>>>),
     nb_parts |-> first_text(item, <<<<"nbParts">>, <<"nombreParts">>>>),
     valeur_euro |-> parse_montant(first_text(item,
                        <<<<"valeurParts">>, <<"valeur">>, <<"montant">>,
                          <<"valeurEstimee">>>>)),
     pourcentage_detention |-> first_text(item, <<<<"pourcentage">>,
                                                  <<"tauxDetention">>>>),
     mode_detention |-> first_text(item, <<<<"modeDetention", "label">>,
                                           <<"modeDetention", "id">>>>),
     objet_social |-> first_text(item, <<<<"objetSocial">>, <<"activite">>,
                                         <<"secteurActivite">>>>),
     adresse |-> first_text(item, <<<<"adresse">>, <<"siege">>>>),
     siren |-> first_text(item, <<<<"siren">>, <<"numeroSIREN">>>>),
     date_acquisition |-> first_text(item, <<<<"dateAcquisition">>, <<"dateEntree">>>>),
     commentaire |-> first_text(item, <<<<"commentaire">>, <<"observation">>>>)]

\* Line 452, negated.
keep_participation(participation) ==
    ~(participation.nom_societe = <<>> /\ participation.valeur_euro = None)

\* Lines 411-457.
parse_participation_financiere(root) ==
    LET section == find_deep(root, <<"participationFinanciereDto">>)
    IN  IF is_section_empty(section) THEN <<>>
        ELSE (LET items == items_with_text(section)
              IN  SelectSeq([k \in 1..Len(items) |-> participation_of(items[k])],
                            keep_participation))

\* Lines 473-505.
bien_immobilier_of(item) ==
    [type |-> "bien_immobilier",
     nature |-> first_text(item, <<<<"nature", "label">>, <<"nature", "id">>,
                                   <<"typeBien", "label">>>>),
     nature_code |-> first_text(item, <<<<"nature", "id">>, <<"typeBien", "id">>>>),
     adresse |-> first_text(item, <<<<"adresse">>, <<"localisation">>, <<"commune">>>>),
     surface_m2 |-> first_text(item, <<<<"surface">>, <<"superficieM2">>>>),
     valeur_euro |-> parse_montant(first_text(item,
                        <<<<"valeur">>, <<"valeurEstimee">>, <<"montant">>>>)),
     mode_detention |-> first_text(item, <<<<"modeDetention", "label">>,
                                           <<"modeDetention", "id">>>>),
     date_acquisition |-> first_text(item, <<<<"dateAcquisition">>, <<"dateAchat">>>>),
     mode_acquisition |-> first_text(item, <<<<"modeAcquisition", "label">>,
                                             <<"modeAcquisition", "id">>,
                                             <<"origine">>>>),
     usage |-> first_text(item, <<<<"usage">>, <<"affectation">>>>),
     commentaire |-> first_text(item, <<<<"commentaire">>, <<"observation">>>>)]

\* Line 507, negated.
keep_bien_immobilier(bien) ==
    ~(bien.nature = <<>> /\ bien.adresse = <<>> /\ bien.valeur_euro = None)

\* Lines 460-512.
parse_biens_immobiliers(root) ==
    LET section == find_deep(root, <<"biensImmobiliersDto">>)
    IN  IF is_section_empty(section) THEN <<>>
        ELSE (LET items == items_with_text(section)
              IN  SelectSeq([k \in 1..Len(items) |-> bien_immobilier_of(items[k])],
                            keep_bien_immobilier))

\* Lines 528-567.
pret_of(item) ==
    [type |-> "pret_bancaire",
     nature |-> first_text(item, <<<<"nature", "label">>, <<"nature", "id">>,
                                   <<"typeCredit", "label">>>>),
     etablissement |-> first_text(item, <<<<"etablissement">>, <<"organisme">>,
                                          <<"preteur">>>>),
     montant_emprunte_euro |-> parse_montant(first_text(item,
                        <<<<"montant">>, <<"montantEmprunte">>, <<"capitalEmprunte">>>>)),
     capital_restant_du_euro |-> parse_montant(first_text(item,
                        <<<<"capitalRestantDu">>, <<"montantRestant">>, <<"solde">>>>)),
     date_souscription |-> first_text(item, <<<<"dateSouscription">>, <<"dateEmprunt">>,
                                              <<"dateOuverture">>>>),
     duree_annees |-> first_text(item, <<<<"duree">>, <<"dureeAnnees">>>>),
     taux_interet |-> first_text(item, <<<<"tauxInteret">>, <<"taux">>>>),
     objet |-> first_text(item, <<<<"objet">>, <<"finalite">>, <<"motif">>>>),
     commentaire |-> first_text(item, <<<<"commentaire">>, <<"observation">>>>)]

\* Line 569, negated.
keep_pret(pret) ==
    ~(pret.montant_emprunte_euro = None /\ pret.capital_restant_du_euro = None)

\* Lines 515-574.
parse_prets_bancaires(root) ==
    LET section == find_deep(root, <<"pretsBancairesDto">>)
    IN  IF is_section_empty(section) THEN <<>>
        ELSE (LET items == items_with_text(section)
              IN  SelectSeq([k \in 1..Len(items) |-> pret_of(items[k])],
                            keep_pret))

\* Lines 590-611.
autre_bien_of(item) ==
    [type |-> "autre_bien",
     nature |-> first_text(item, <<<<"nature", "label">>, <<"nature", "id">>,
                                   <<"categorie", "label">>>>),
     description |-> first_text(item, <<<<"description">>, <<"designation">>,
                                        <<"libelle">>>>),
     valeur_euro |-> parse_montant(first_text(item,
                        <<<<"valeur">>, <<"valeurEstimee">>, <<"montant">>>>)),
     date_acquisition |-> first_text(item, <<<<"dateAcquisition">>, <<"dateAchat">>>>),
     commentaire |-> first_text(item, <<<<"commentaire">>, <<"observation">>>>)]

\* Line 613, negated.
keep_autre_bien(bien) ==
    ~(bien.nature = <<>> /\ bien.description = <<>> /\ bien.valeur_euro = None)

\* Lines 577-618.
parse_autres_biens(root) ==
    LET section == find_deep(root, <<"autresBiensDto">>)
    IN  IF is_section_empty(section) THEN <<>>
        ELSE (LET items == items_with_text(section)
              IN  SelectSeq([k \in 1..Len(items) |-> autre_bien_of(items[k])],
                            keep_autre_bien))

\* Lines 634-657.
revenu_of(item) ==
    [type |-> "revenu",
     nature |-> first_text(item, <<<<"nature", "label">>, <<"nature", "id">>,
                                   <<"typeRevenu", "label">>>>),
     employeur |-> first_text(item, <<<<"employeur">>, <<"source">>, <<"organisme">>>>),
     montant_annuel_euro |-> parse_montant(first_text(item,
                        <<<<"montant">>, <<"montantAnnuel">>, <<"revenusAnnuels">>>>)),
     activite |-> first_text(item, <<<<"activite">>, <<"fonction">>>>),
     date_debut |-> first_text(item, <<<<"dateDebut">>, <<"depuis">>>>),
     date_fin |-> first_text(item, <<<<"dateFin">>, <<"jusqua">>>>),
     commentaire |-> first_text(item, <<<<"commentaire">>, <<"observation">>>>)]

\* Line 659, negated.
keep_revenu(revenu) ==
    ~(revenu.nature = <<>> /\ revenu.montant_annuel_euro = None)

\* Lines 671-699.
activite_of(item) ==
    [type |-> "activite_remuneree",
     nature |-> first_text(item, <<<<"nature", "label">>, <<"nature", "id">>,
                                   <<"typeActivite", "label">>>>),
     employeur |-> first_text(item, <<<<"employeur">>, <<"nomEmployeur">>,
                                      <<"organisme">>>>),
     fonction |-> first_text(item, <<<<"fonction">>, <<"intitulePoste">>,
                                     <<"activite">>>>),
     montant_annuel_euro |-> parse_montant(first_text(item,
                        <<<<"montant">>, <<"remunerationAnnuelle">>,
                          <<"revenuAnnuel">>>>)),
     secteur_activite |-> first_text(item, <<<<"secteurActivite">>, <<"domaine">>>>),
     date_debut |-> first_text(item, <<<<"dateDebut">>, <<"depuis">>>>),
     date_fin |-> first_text(item, <<<<"dateFin">>, <<"jusqua">>>>),
     commentaire |-> first_text(item, <<<<"commentaire">>, <<"observation">>>>)]

\* Line 701, negated.
keep_activite(activite) == ~(activite.employeur = <<>> /\ activite.fonction = <<>>)

\* Lines 621-706.
parse_revenus_activites(root) ==
    LET section_revenus == find_deep(root, <<"revenusDto">>)
        section_activites == find_deep(root, <<"activitesRemunerees">>)
    IN  (IF is_section_empty(section_revenus) THEN <<>>
         ELSE (LET items == items_with_text(section_revenus)
              IN  SelectSeq([k \in 1..Len(items) |-> revenu_of(items[k])],
                            keep_revenu)))
        \o (IF is_section_empty(section_activites) THEN <<>>
            ELSE (LET items == items_with_text(section_activites)
              IN  SelectSeq([k \in 1..Len(items) |-> activite_of(items[k])],
                            keep_activite)))

\* Lines 722-748.
mandat_of(item) ==
    [type |-> "mandat_electif",
     nature |-> first_text(item, <<<<"nature", "label">>, <<"nature", "id">>,
                                   <<"typeMandat", "label">>>>),
     fonction |-> first_text(item, <<<<"fonction">>, <<"intituleFonction">>,
                                     <<"qualite">>>>),
     collectivite |-> first_text(item, <<<<"collectivite">>, <<"organe">>,
                                         <<"assemblee">>>>),
     circonscription |-> first_text(item, <<<<"circonscription">>, <<"territoire">>,
                                            <<"zone">>>>),
     date_debut |-> first_text(item, <<<<"dateDebut">>, <<"depuis">>>>),
     date_fin |-> first_text(item, <<<<"dateFin">>, <<"jusqua">>>>),
     en_cours |-> xml_bool(item, <<"enCours">>),
     commentaire |-> first_text(item, <<<<"commentaire">>, <<"observation">>>>)]

\* Line 750, negated.
keep_mandat(mandat) == ~(mandat.nature = <<>> /\ mandat.fonction = <<>>)

\* Lines 709-755.
parse_mandats_electifs(root) ==
    LET section == find_deep(root, <<"mandatsElectifsDto">>)
    IN  IF is_section_empty(section) THEN <<>>
        ELSE (LET items == items_with_text(section)
              IN  SelectSeq([k \in 1..Len(items) |-> mandat_of(items[k])],
                            keep_mandat))

\* Lines 773-801.
fonction_of(item) ==
    [type |-> "fonction_dirigeante",
     fonction |-> first_text(item, <<<<"fonction">>, <<"intituleFonction">>,
                                     <<"titre">>>>),
     organisme |-> first_text(item, <<<<"organisme">>, <<"nomOrganisme">>,
                                      <<"structure">>>>),
     nature_organisme |-> first_text(item, <<<<"natureOrganisme", "label">>,
                                             <<"natureOrganisme", "id">>,
                                             <<"typeStructure", "label">>>>),
     secteur_activite |-> first_text(item, <<<<"secteurActivite">>, <<"domaine">>,
                                             <<"objet">>>>),
     remuneree |-> xml_bool(item, <<"remuneree">>),
     montant_annuel_euro |-> parse_montant(first_text(item,
                        <<<<"montant">>, <<"remuneration">>>>)),
     date_debut |-> first_text(item, <<<<"dateDebut">>, <<"depuis">>>>),
     date_fin |-> first_text(item, <<<<"dateFin">>, <<"jusqua">>>>),
     en_cours |-> xml_bool(item, <<"enCours">>),
     commentaire |-> first_text(item, <<<<"commentaire">>, <<"observation">>>>)]

\* Line 803, negated.
keep_fonction(fonction) == ~(fonction.fonction = <<>> /\ fonction.organisme = <<>>)

\* Lines 764-806 for one section name.
fonctions_of_section(root, section_name) ==
    LET section == find_deep(root, <<section_name>>)
    IN  IF is_section_empty(section) THEN <<>>
        ELSE (LET items == items_with_text(section)
              IN  SelectSeq([k \in 1..Len(items) |-> fonction_of(items[k])],
                            keep_fonction))

\* Lines 758-808.
parse_fonctions_dirigeantes(root) ==
    fonctions_of_section(root, "fonctionsDto")
    \o fonctions_of_section(root, "fonctionsDirigeantes")
    \o fonctions_of_section(root, "fonctionsBenevoles")

\* Lines 850-853.
enfant_of(item) ==
    [date_naissance |-> first_text(item, <<<<"dateNaissance">>, <<"anneeNaissance">>>>),
     a_charge |-> xml_bool(item, <<"aCharge">>)]

\* Line 855.
keep_enfant(enfant) == enfant.date_naissance # <<>>

\* Lines 811-858 on the tree; the dict of the conjoint is {} (None here) when
\* the document holds no <conjoint> element.
parse_informations_familiales_tree(root) ==
    LET situation ==
            LET t == xml_text_deep(root, <<"situationFamiliale", "label">>)
            IN  IF t # <<>> THEN t
                ELSE xml_text_deep(root, <<"situationFamiliale", "id">>)
        conjoint_section == find_deep(root, <<"conjoint">>)
        enfants_section == find_deep(root, <<"enfantsDto">>)
    IN  [situation_familiale |-> situation,
         conjoint |->
             IF conjoint_section = None THEN None
             ELSE [nom |-> xml_text(conjoint_section, <<"nom">>),
                   prenom |-> xml_text(conjoint_section, <<"prenom">>),
                   profession |-> first_text(conjoint_section,
                                      <<<<"profession">>, <<"activiteProfessionnelle">>>>),
                   employeur |-> first_text(conjoint_section,
                                      <<<<"employeur">>, <<"nomEmployeur">>>>),
                   secteur_activite |-> xml_text(conjoint_section, <<"secteurActivite">>)],
         enfants |->
             IF is_section_empty(enfants_section) THEN <<>>
             ELSE (LET items == items_with_text(enfants_section)
              IN  SelectSeq([k \in 1..Len(items) |-> enfant_of(items[k])],
                            keep_enfant))]

\* " | ".join(observations)
RECURSIVE join(_)
join(texts) ==
    IF texts = <<>> THEN <<>>
    ELSE IF Len(texts) = 1 THEN Head(texts)
    ELSE Head(texts) \o <<" ", "|", " ">> \o join(Tail(texts))

\* Lines 861-872.
parse_observations(root) ==
    join(SelectSeq(
           [k \in 1..4 |->
               xml_text_deep(root, <<(<<"observations", "observationsGenerales",
                                        "commentaire", "precisions">>)[k]>>)],
           LAMBDA t : t # <<>>))

\* Lines 879-934 on the tree ET.fromstring built, or on what it rejected.
parse_declaration_tree(root, url) ==
    IF root = NotXML THEN ParseFailure
    ELSE LET type_decl_id == xml_text(root, <<"general", "typeDeclaration", "id">>)
             type_decl_label ==
                 LET t == xml_text(root, <<"general", "typeDeclaration", "label">>)
                 IN  IF t # <<>> THEN t ELSE type_decl_id
         IN  [ok |-> TRUE,
              uuid |-> xml_text(root, <<"uuid">>),
              url_xml |-> url,
              type_declaration |-> type_decl_id,
              type_declaration_label |-> type_decl_label,
              date_depot |-> xml_text(root, <<"dateDepot">>),
              declarant |->
                  [nom |-> xml_text(root, <<"general", "declarant", "nom">>),
                   prenom |-> xml_text(root, <<"general", "declarant", "prenom">>),
                   qualite |-> xml_text(root, <<"general", "qualiteDeclarant">>),
                   organe |-> xml_text(root, <<"general", "organe", "labelOrgane">>),
                   mandat |-> xml_text(root, <<"general", "qualiteMandat",
                                               "labelTypeMandat">>)],
              instruments_financiers |-> parse_instruments_financiers(root),
              participations_financieres |-> parse_participation_financiere(root),
              biens_immobiliers |-> parse_biens_immobiliers(root),
              prets_bancaires |-> parse_prets_bancaires(root),
              autres_biens |-> parse_autres_biens(root),
              revenus_activites |-> parse_revenus_activites(root),
              mandats_electifs |-> parse_mandats_electifs(root),
              fonctions_dirigeantes |-> parse_fonctions_dirigeantes(root),
              famille |-> parse_informations_familiales_tree(root),
              observations |-> parse_observations(root)]

\* ------------------------------------------------------------------------
\* fetch_hatvp_complete_for_elu
\* ------------------------------------------------------------------------

\* Lines 969-986.
new_result(prenom, nom, now, n_rows) ==
    [prenom |-> prenom, nom |-> nom, scraped_at |-> now,
     declarations_trouvees |-> n_rows,
     instruments_financiers |-> <<>>, participations_financieres |-> <<>>,
     biens_immobiliers |-> <<>>, prets_bancaires |-> <<>>, autres_biens |-> <<>>,
     revenus_activites |-> <<>>, mandats_electifs |-> <<>>,
     fonctions_dirigeantes |-> <<>>,
     famille |-> NoFamille, observations |-> <<>>, declarations |-> <<>>]

\* Lines 1030-1038: the family block of the result after one more parsed
\* declaration.
merge_famille(mine, theirs) ==
    IF ~theirs.present THEN mine
    ELSE IF ~mine.present THEN theirs
    ELSE [mine EXCEPT
            !.conjoint = IF theirs.conjoint.present THEN theirs.conjoint ELSE @,
            !.enfants = @ \o theirs.enfants]

\* The records of more that list does not hold yet, in order.
RECURSIVE extend_new(_, _)
extend_new(list, more) ==
    IF more = <<>> THEN list
    ELSE extend_new(IF \E k \in 1..Len(list) : list[k] = Head(more)
                    THEN list ELSE Append(list, Head(more)),
                    Tail(more))

\* A consolidation that deduplicates the income records across declarations.
consolidate_dedup(result, parsed, xml_url) ==
    [result EXCEPT
       !.instruments_financiers = @ \o parsed.instruments_financiers,
       !.participations_financieres = @ \o parsed.participations_financieres,
       !.biens_immobiliers = @ \o parsed.biens_immobiliers,
       !.prets_bancaires = @ \o parsed.prets_bancaires,
       !.autres_biens = @ \o parsed.autres_biens,
       !.revenus_activites = extend_new(@, parsed.revenus_activites),
       !.mandats_electifs = @ \o parsed.mandats_electifs,
       !.fonctions_dirigeantes = @ \o parsed.fonctions_dirigeantes,
       !.famille = merge_famille(@, parsed.famille),
       !.observations =
           IF parsed.observations # "" THEN Append(@, parsed.observations) ELSE @,
       !.declarations =
           Append(@, [type |-> parsed.type_declaration,
                      label |-> parsed.type_declaration_label,
                      date_depot |-> parsed.date_depot,
                      uuid |-> parsed.uuid,
                      url |-> xml_url])]

\* Lines 1019-1052: one parsed declaration consolidated into the result.
consolidate(result, parsed, xml_url) ==
    [result EXCEPT
       !.instruments_financiers = @ \o parsed.instruments_financiers,
       !.participations_financieres = @ \o parsed.participations_financieres,
       !.biens_immobiliers = @ \o parsed.biens_immobiliers,
       !.prets_bancaires = @ \o parsed.prets_bancaires,
       !.autres_biens = @ \o parsed.autres_biens,
       !.revenus_activites = @ \o parsed.revenus_activites,
       !.mandats_electifs = @ \o parsed.mandats_electifs,
       !.fonctions_dirigeantes = @ \o parsed.fonctions_dirigeantes,
       !.famille = merge_famille(@, parsed.famille),
       !.observations =
           IF parsed.observations # "" THEN Append(@, parsed.observations) ELSE @,
       !.declarations =
           Append(@, [type |-> parsed.type_declaration,
                      label |-> parsed.type_declaration_label,
                      date_depot |-> parsed.date_depot,
                      uuid |-> parsed.uuid,
                      url |-> xml_url])]

\* download_xml (lines 296-308): the cached bytes unless forced, else the
\* network, whose answer net_ok is the environment's; got tells whether bytes
\* came back and cache is the XML cache afterwards.
download_xml(url, cache, force, net_ok) ==
    IF ~force /\ url \in cache THEN [got |-> TRUE, cache |-> cache]
    ELSE IF net_ok THEN [got |-> TRUE, cache |-> cache \cup {url}]
    ELSE [got |-> FALSE, cache |-> cache]

\* The parsed declarations in memory once one more has been consolidated.
\* Line 1032 makes the family block of the result the very dict of the first
\* declaration consolidated, so what lines 1035-1038 store in the result's
\* block they store in that declaration's: owner is its position, 0 before.
alias_famille(parsed_so_far, owner, famille) ==
    IF owner = 0 THEN parsed_so_far
    ELSE [parsed_so_far EXCEPT ![owner].famille = famille]

\* One turn of the loop of lines 989-1052.  acc carries the result, the XML
\* cache, the warnings printed so far and the parsed declarations; raised
\* tells that an exception left the function, which download_xml raises when
\* the bytes it received cannot be written to the cache (lines 305-307).
fetch_one(acc, row, force, dry_run, net_ok) ==
    IF row = None \/ acc.raised THEN acc
    ELSE LET xml_url == get_xml_url(row) IN
      IF xml_url = NoFile
      THEN [acc EXCEPT !.log = @ \cup {"url_xml_introuvable"}]
      ELSE IF dry_run
      THEN [acc EXCEPT !.result.declarations =
                Append(@, [type |-> get_declaration_type(row), url |-> xml_url,
                           dry_run |-> TRUE])]
      ELSE LET dl == download_xml(xml_url, acc.cache, force, net_ok) IN
        IF dl.got /\ (force \/ xml_url \notin acc.cache) /\ "xmls" \in acc.unwritable
        THEN [acc EXCEPT !.raised = TRUE]
        ELSE IF ~dl.got
        THEN [acc EXCEPT !.cache = dl.cache,
                         !.log = @ \cup {"telechargement_echoue"}]
        ELSE LET parsed == parse_declaration_xml(xml_url) IN
          IF ~parsed.ok
          THEN [acc EXCEPT !.cache = dl.cache, !.log = @ \cup {"xml_invalide"}]
          ELSE LET result == consolidate(acc.result, parsed, xml_url)
                   owner == IF acc.owner = 0 /\ parsed.famille.present
                            THEN Len(acc.parsed) + 1 ELSE acc.owner
               IN  [acc EXCEPT !.cache = dl.cache,
                               !.result = result,
                               !.owner = owner,
                               !.parsed = alias_famille(Append(@, parsed), owner,
                                                        result.famille)]

\* A selection that takes the last patrimony row of the sorted list.
RECURSIVE last_of_types(_, _)
last_of_types(rows, types) ==
    IF rows = <<>> THEN None
    ELSE IF get_declaration_type(rows[Len(rows)]) \in types THEN rows[Len(rows)]
    ELSE last_of_types(SubSeq(rows, 1, Len(rows) - 1), types)

select_dsp_oldest(rows) == last_of_types(rows, DSP_TYPES)

\* The selection of lines 966-967.
select_dsp(rows) == first_of_types(rows, DSP_TYPES)

select_di(rows) == first_of_types(rows, DI_TYPES)

\* fetch_hatvp_complete_for_elu: found is FALSE for the None of lines 956 and
\* 961.  net_dsp and net_di are the network's answers to the two downloads,
\* unwritable the files of the disk that cannot be written.
fetch_hatvp_complete_for_elu(elu, index, force, dry_run, cache, now, net_dsp, net_di, unwritable) ==
    LET prenom == strip(elu.prenom)
        nom == strip(elu.nom)
        none == [found |-> FALSE, result |-> None, cache |-> cache, log |-> {},
                 owner |-> 0, parsed |-> <<>>, raised |-> FALSE,
                 unwritable |-> unwritable]
    IN  IF prenom = <<>> \/ nom = <<>> THEN none
        ELSE LET declarations_rows == find_declarations_for_elu(index, prenom, nom) IN
          IF declarations_rows = <<>>
          THEN [none EXCEPT !.log = {"aucune_declaration"}]
          ELSE LET dsp_row == select_dsp(declarations_rows)
                   di_row == select_di(declarations_rows)
                   start == [found |-> TRUE,
                             result |-> new_result(prenom, nom, now, Len(declarations_rows)),
                             cache |-> cache, log |-> {},
                             owner |-> 0, parsed |-> <<>>, raised |-> FALSE,
                             unwritable |-> unwritable]
               IN  fetch_one(fetch_one(start, dsp_row, force, dry_run, net_dsp),
                             di_row, force, dry_run, net_di)

\* ------------------------------------------------------------------------
\* build_resume_complet
\* ------------------------------------------------------------------------

RECURSIVE sum_field(_, _)
sum_field(records, field) ==
    IF records = <<>> THEN 0
    ELSE amount(Head(records)[field]) + sum_field(Tail(records), field)

\* A financial summary whose gross assets leave the other valuables out.
build_resume_without_autres_biens(data) ==
    LET valeur_instruments == sum_field(data.instruments_financiers, "valeur_euro")
        valeur_participations == sum_field(data.participations_financieres, "valeur_euro")
        valeur_immobilier == sum_field(data.biens_immobiliers, "valeur_euro")
        valeur_autres_biens == sum_field(data.autres_biens, "valeur_euro")
        total_dettes == sum_field(data.prets_bancaires, "capital_restant_du_euro")
        revenus_annuels == sum_field(data.revenus_activites, "montant_annuel_euro")
        patrimoine_brut == valeur_instruments + valeur_participations
                           + valeur_immobilier
        patrimoine_net == patrimoine_brut - total_dettes
    IN  [nb_instruments_financiers |-> Len(data.instruments_financiers),
         nb_participations_societes |-> Len(data.participations_financieres),
         nb_biens_immobiliers |-> Len(data.biens_immobiliers),
         nb_prets_bancaires |-> Len(data.prets_bancaires),
         nb_autres_biens |-> Len(data.autres_biens),
         nb_revenus_activites |-> Len(data.revenus_activites),
         nb_mandats_electifs |-> Len(data.mandats_electifs),
         nb_fonctions_dirigeantes |-> Len(data.fonctions_dirigeantes),
         patrimoine_brut_euro |-> patrimoine_brut,
         patrimoine_net_euro |-> patrimoine_net,
         valeur_instruments_euro |-> valeur_instruments,
         valeur_participations_euro |-> valeur_participations,
         valeur_immobilier_euro |-> valeur_immobilier,
         valeur_autres_biens_euro |-> valeur_autres_biens,
         total_dettes_euro |-> total_dettes,
         revenus_annuels_euro |-> revenus_annuels,
         nb_declarations_hatvp |-> data.declarations_trouvees,
         hatvp_scraped_at |-> data.scraped_at,
         a_conjoint |-> data.famille.conjoint.nom # "",
         nb_enfants |-> Len(data.famille.enfants)]

\* Lines 1057-1103.  Amounts are whole euros, which round(x, 2) leaves as
\* they are.
build_resume_complet(data) ==
    LET valeur_instruments == sum_field(data.instruments_financiers, "valeur_euro")
        valeur_participations == sum_field(data.participations_financieres, "valeur_euro")
        valeur_immobilier == sum_field(data.biens_immobiliers, "valeur_euro")
        valeur_autres_biens == sum_field(data.autres_biens, "valeur_euro")
        total_dettes == sum_field(data.prets_bancaires, "capital_restant_du_euro")
        revenus_annuels == sum_field(data.revenus_activites, "montant_annuel_euro")
        patrimoine_brut == valeur_instruments + valeur_participations
                           + valeur_immobilier + valeur_autres_biens
        patrimoine_net == patrimoine_brut - total_dettes
    IN  [nb_instruments_financiers |-> Len(data.instruments_financiers),
         nb_participations_societes |-> Len(data.participations_financieres),
         nb_biens_immobiliers |-> Len(data.biens_immobiliers),
         nb_prets_bancaires |-> Len(data.prets_bancaires),
         nb_autres_biens |-> Len(data.autres_biens),
         nb_revenus_activites |-> Len(data.revenus_activites),
         nb_mandats_electifs |-> Len(data.mandats_electifs),
         nb_fonctions_dirigeantes |-> Len(data.fonctions_dirigeantes),
         patrimoine_brut_euro |-> patrimoine_brut,
         patrimoine_net_euro |-> patrimoine_net,
         valeur_instruments_euro |-> valeur_instruments,
         valeur_participations_euro |-> valeur_participations,
         valeur_immobilier_euro |-> valeur_immobilier,
         valeur_autres_biens_euro |-> valeur_autres_biens,
         total_dettes_euro |-> total_dettes,
         revenus_annuels_euro |-> revenus_annuels,
         nb_declarations_hatvp |-> data.declarations_trouvees,
         hatvp_scraped_at |-> data.scraped_at,
         a_conjoint |-> data.famille.conjoint.nom # "",
         nb_enfants |-> Len(data.famille.enfants)]

\* ------------------------------------------------------------------------
\* elus.json
\* ------------------------------------------------------------------------

MaxAgeDays == 90

\* has_hatvp_data (lines 1185-1217); timestamps are day numbers.
has_hatvp_data(elu, skip_existing, today) ==
    IF ~skip_existing THEN FALSE
    ELSE IF elu.hatvp_complete = None THEN FALSE
    ELSE IF today - elu.hatvp_complete.hatvp_scraped_at > MaxAgeDays THEN FALSE
    ELSE TRUE

\* An update that keeps the summary a person already has.
update_elu_keep_stored(list, elu_id, hatvp_data) ==
    IF \E k \in 1..Len(list) : list[k].id = elu_id
    THEN LET k == CHOOSE k \in 1..Len(list) :
                    /\ list[k].id = elu_id
                    /\ \A j \in 1..(k - 1) : list[j].id # elu_id
         IN  IF list[k].hatvp_complete # None THEN list
             ELSE [list EXCEPT ![k].hatvp_complete = hatvp_data]
    ELSE list

\* update_elu_in_list (lines 1159-1166): the first person with that id.
update_elu_in_list(list, elu_id, hatvp_data) ==
    IF \E k \in 1..Len(list) : list[k].id = elu_id
    THEN LET k == CHOOSE k \in 1..Len(list) :
                    /\ list[k].id = elu_id
                    /\ \A j \in 1..(k - 1) : list[j].id # elu_id
         IN  [list EXCEPT ![k].hatvp_complete = hatvp_data]
    ELSE list

\* ------------------------------------------------------------------------
\* State
\* ------------------------------------------------------------------------

VARIABLES
    index,       \* the rows of the HATVP index, in file order
    elus_file,   \* elus.json on disk
    elus,        \* the list main holds in memory
    details,     \* the details file of each person id (None: no file)
    xml_cache,   \* the URLs whose XML is in the cache directory
    args,        \* the options of the command line
    net,         \* "up": every download answers; "flaky": any may fail
    today,       \* the day of the run
    runs,        \* invocations of main so far
    pc,          \* "start", "loaded", "loop", then "done", "exit" (status 1), "crashed"
    i,           \* position of the loop of line 1393
    counters,    \* processed, skipped, not_found, updated, errors
    log,         \* the warnings printed so far
    parsed,      \* the parsed declarations of the last fetch, as left in memory
    index_cache, \* <<day>> the cached copy of the index was written (None: no file)
    progress_file, \* the progress file (None: no file)
    unwritable,  \* the kinds of files that cannot be written
    profile,     \* a consolidated profile handed to build_resume_complet
    summary,     \* what build_resume_complet returned for it (None: not called)
    document,    \* the root element of an XML document handed to the parsers
    declaration, \* what the parsers returned for it (None: not called)
    argument,    \* the text handed to parse_montant, the names to normalize_name
    returned,    \* the values returned so far, in the order of the calls
    photos,      \* the files of the photos directory, by name without .jpg
    updated,     \* scrape-photos: the photo paths to write to elus.json, by id
    tried        \* scrape-photos: the sources asked for the last person, in order

vars ==
    <<index, elus_file, elus, details, xml_cache, args, net, today, runs, pc,
      i, counters, log, parsed, index_cache, progress_file, unwritable,
      profile, summary, document, declaration, argument, returned,
      photos, updated, tried>>

\* The state of main's batch, and the state of the functions called alone.
batch_vars ==
    <<index, elus_file, elus, details, xml_cache, args, net, today, runs, pc,
      i, counters, log, parsed, index_cache, progress_file, unwritable>>

call_vars == <<profile, summary, document, declaration, argument, returned>>

\* The state of scrape-photos, and its value while that script does not run.
photo_vars == <<photos, updated, tried>>

NoPhotos == photos = {} /\ updated = <<>> /\ tried = <<>>

\* The options of the command line (lines 89-101); no --limit is 0, no
\* --test-elu is None.
Args(force, dry_run, skip_existing) ==
    [force |-> force, dry_run |-> dry_run, skip_existing |-> skip_existing,
     limit |-> 0, refresh_index |-> FALSE, test_elu |-> None]

ZeroCounters ==
    [processed |-> 0, skipped |-> 0, not_found |-> 0, updated |-> 0, errors |-> 0]

NetAnswers == IF net = "up" THEN {TRUE} ELSE {TRUE, FALSE}

\* ------------------------------------------------------------------------
\* Actions
\* ------------------------------------------------------------------------

\* The cached index is used when it is less than 24 hours old, which the
\* day numbers tell as written today (lines 196-198).
index_cached(cache_day, refresh, day) ==
    ~refresh /\ cache_day # None /\ day - cache_day[1] < 1

\* load_elus()[:args.limit] (lines 1365-1372); no limit is 0.
limited(list, limit) ==
    IF limit # 0 THEN SubSeq(list, 1, IF limit < Len(list) THEN limit ELSE Len(list))
    ELSE list

\* The progress written by lines 1454-1456 and 1474-1476.
progress_of(processed, day) == [total_processed |-> processed, last_save |-> day]

\* main up to the index (lines 1255-1283): the cached index, or the download,
\* which writes the cache whatever the options, and ends the run when it fails.
LoadIndex ==
    /\ pc = "start"
    /\ IF index_cached(index_cache, args.refresh_index, today)
       THEN pc' = "loaded" /\ UNCHANGED index_cache
       ELSE \E ok \in NetAnswers :
               IF ok THEN pc' = "loaded" /\ index_cache' = <<today>>
               ELSE pc' = "exit" /\ UNCHANGED index_cache
    /\ UNCHANGED <<index, elus_file, elus, details, xml_cache, args, net, today,
                   runs, i, counters, log, parsed, progress_file, unwritable>>
    /\ UNCHANGED call_vars
    /\ UNCHANGED photo_vars

\* q in full (line 1225).
is_in(q, full) ==
    \E k \in 0..(Len(full) - Len(q)) : SubSeq(full, k + 1, k + Len(q)) = q

\* find_elu_by_name (lines 1220-1227): <<the first person whose name holds
\* the query>>, None when there is none.
find_elu_by_name(list, query) ==
    LET full(e) == lower(e.prenom \o <<" ">> \o e.nom)
        hits == {k \in 1..Len(list) : is_in(lower(query), full(list[k]))}
    IN  IF hits = {} THEN None
        ELSE <<list[CHOOSE k \in hits : \A j \in hits : k <= j]>>

\* str.split() (line 1292): the words between runs of white space.
RECURSIVE split_words(_, _, _)
split_words(s, word, done) ==
    IF s = <<>> THEN (IF word = <<>> THEN done ELSE Append(done, word))
    ELSE IF Head(s) \in WhiteSpace
    THEN split_words(Tail(s), <<>>, IF word = <<>> THEN done ELSE Append(done, word))
    ELSE split_words(Tail(s), Append(word, Head(s)), done)

\* " ".join(parts) (line 1293).
RECURSIVE join_words(_)
join_words(parts) ==
    IF parts = <<>> THEN <<>>
    ELSE IF Len(parts) = 1 THEN Head(parts)
    ELSE Head(parts) \o <<" ">> \o join_words(Tail(parts))

\* The test mode of main (lines 1285-1360): the person named by --test-elu,
\* or a person "test" made of the words of the query, is fetched with force;
\* the details file is written and nothing else.  No exception is caught.
TestElu ==
    /\ pc = "loaded"
    /\ args.test_elu # None
    /\ elus' = elus_file
    /\ LET found == find_elu_by_name(elus_file, args.test_elu)
           parts == split_words(args.test_elu, <<>>, <<>>)
       IN  IF found = None /\ parts = <<>>
           THEN /\ pc' = "crashed"
                /\ UNCHANGED <<details, xml_cache, log, parsed>>
           ELSE \E net_dsp \in NetAnswers, net_di \in NetAnswers :
                \E elu \in {IF found # None THEN found[1]
                            ELSE [id |-> "test", prenom |-> parts[1],
                                  nom |-> join_words(Tail(parts)), ident |-> "",
                                  hatvp_complete |-> None]} :
                \E got \in {fetch_hatvp_complete_for_elu(
                               elu, index, TRUE, args.dry_run, xml_cache, today,
                               net_dsp, net_di, unwritable)} :
                    /\ xml_cache' = got.cache
                    /\ parsed' = got.parsed
                    /\ log' = log \cup got.log
                    /\ details' =
                         IF got.raised \/ ~got.found \/ args.dry_run
                            \/ "details" \in unwritable
                         THEN details
                         ELSE [details EXCEPT ![elu.id] = got.result]
                    /\ pc' = IF got.raised
                                \/ (got.found /\ ~args.dry_run
                                    /\ "details" \in unwritable)
                             THEN "crashed" ELSE "done"
    /\ UNCHANGED <<index, elus_file, args, net, today, runs, i, counters,
                   index_cache, progress_file, unwritable>>
    /\ UNCHANGED call_vars
    /\ UNCHANGED photo_vars

\* Lines 1362-1391: the persons of elus.json, cut to the limit.
LoadElus ==
    /\ pc = "loaded"
    /\ args.test_elu = None
    /\ elus' = limited(elus_file, args.limit)
    /\ pc' = IF elus_file = <<>> THEN "done" ELSE "loop"
    /\ i' = 1
    /\ counters' = ZeroCounters
    /\ UNCHANGED <<index, elus_file, details, xml_cache, args, net, today, runs,
                   log, parsed, index_cache, progress_file, unwritable>>
    /\ UNCHANGED call_vars
    /\ UNCHANGED photo_vars

\* One iteration of the loop of lines 1393-1464.  An exception raised inside
\* the try of line 1413 is counted at line 1459, after what the iteration had
\* done before it.
ProcessElu ==
    /\ pc = "loop"
    /\ i <= Len(elus)
    /\ LET elu == elus[i]
           elu_id == elu.id
       IN  IF has_hatvp_data(elu, args.skip_existing, today)
           THEN /\ counters' = [counters EXCEPT !.skipped = @ + 1]
                /\ UNCHANGED <<elus, elus_file, details, xml_cache, log, parsed,
                               progress_file>>
           ELSE \E net_dsp \in NetAnswers, net_di \in NetAnswers :
                \E got \in {fetch_hatvp_complete_for_elu(
                               elu, index, args.force, args.dry_run, xml_cache,
                               today, net_dsp, net_di, unwritable)} :
                    /\ xml_cache' = got.cache
                    /\ parsed' = got.parsed
                    /\ IF got.raised
                       THEN /\ counters' = [counters EXCEPT !.errors = @ + 1]
                            /\ log' = log \cup got.log
                            /\ UNCHANGED <<elus, elus_file, details, progress_file>>
                       ELSE IF ~got.found
                       THEN /\ counters' = [counters EXCEPT !.not_found = @ + 1]
                            /\ log' = log \cup got.log
                            /\ UNCHANGED <<elus, elus_file, details, progress_file>>
                       ELSE LET resume == build_resume_complet(got.result)
                                known == \E k \in 1..Len(elus) : elus[k].id = elu_id
                                list == update_elu_in_list(elus, elu_id, resume)
                                processed == counters.processed + 1
                                details_raise ==
                                    ~args.dry_run /\ "details" \in unwritable
                                saving ==
                                    /\ ~details_raise
                                    /\ ~args.dry_run
                                    /\ processed % SAVE_INTERVAL = 0
                                elus_raise == saving /\ "elus" \in unwritable
                                progress_raise ==
                                    saving /\ ~elus_raise /\ "progress" \in unwritable
                            IN  /\ elus' = list
                                /\ log' = log \cup got.log
                                          \cup (IF known THEN {} ELSE {"elu_non_trouve"})
                                /\ details' =
                                     IF args.dry_run \/ details_raise THEN details
                                     ELSE [details EXCEPT ![elu_id] = got.result]
                                /\ counters' =
                                     IF details_raise
                                     THEN [counters EXCEPT !.errors = @ + 1]
                                     ELSE [counters EXCEPT
                                             !.updated = @ + 1,
                                             !.processed = processed,
                                             !.errors =
                                                 IF elus_raise \/ progress_raise
                                                 THEN @ + 1 ELSE @]
                                /\ elus_file' =
                                     IF saving /\ ~elus_raise THEN list ELSE elus_file
                                /\ progress_file' =
                                     IF saving /\ ~elus_raise /\ ~progress_raise
                                     THEN progress_of(processed, today)
                                     ELSE progress_file
    /\ i' = i + 1
    /\ UNCHANGED <<index, args, net, today, runs, pc, index_cache, unwritable>>
    /\ UNCHANGED call_vars
    /\ UNCHANGED photo_vars

\* Lines 1468-1504: the final save, outside any try, and the exit status,
\* which is 1 when more than half of the persons raised.
Finish ==
    /\ pc = "loop"
    /\ i > Len(elus)
    /\ LET saving == ~args.dry_run /\ counters.updated > 0
           elus_raise == saving /\ "elus" \in unwritable
           progress_raise == saving /\ ~elus_raise /\ "progress" \in unwritable
       IN  /\ elus_file' = IF saving /\ ~elus_raise THEN elus ELSE elus_file
           /\ progress_file' =
                IF saving /\ ~elus_raise /\ ~progress_raise
                THEN progress_of(counters.processed, today) ELSE progress_file
           /\ pc' = IF elus_raise \/ progress_raise THEN "crashed"
                    ELSE IF counters.errors > Len(elus) \div 2 THEN "exit"
                    ELSE "done"
    /\ UNCHANGED <<index, elus, details, xml_cache, args, net, today, runs, i,
                   counters, log, parsed, index_cache, unwritable>>
    /\ UNCHANGED call_vars
    /\ UNCHANGED photo_vars

\* Another invocation of main, on a later day.
StartRun ==
    /\ pc = "done"
    /\ runs < MaxRuns
    /\ runs' = runs + 1
    /\ \E force \in BOOLEAN, dry_run \in BOOLEAN, skip_existing \in BOOLEAN :
          args' = Args(force, dry_run, skip_existing)
    /\ net' \in {"up", "flaky"}
    /\ \E days \in {1, MaxAgeDays + 1} : today' = today + days
    /\ elus' = <<>>
    /\ i' = 1
    /\ counters' = ZeroCounters
    /\ pc' = "start"
    /\ parsed' = <<>>
    /\ UNCHANGED <<index, elus_file, details, xml_cache, log, index_cache,
                   progress_file, unwritable>>
    /\ UNCHANGED call_vars
    /\ UNCHANGED photo_vars

Next == ProcessElu \/ Finish

NextRuns == Next \/ StartRun \/ LoadIndex \/ LoadElus

\* One invocation of main from its first line.
NextMain == LoadIndex \/ TestElu \/ LoadElus \/ ProcessElu \/ Finish

\* build_resume_complet called on a consolidated profile (line 1429).
BuildResume ==
    /\ profile # None
    /\ summary = None
    /\ summary' = build_resume_complet(profile)
    /\ UNCHANGED <<profile, document, declaration, argument, returned>>
    /\ UNCHANGED batch_vars
    /\ UNCHANGED photo_vars

NextResume == BuildResume

\* parse_declaration_xml called on the bytes of a document (line 1015).
ParseDocument ==
    /\ document # None
    /\ declaration = None
    /\ declaration' = parse_declaration_tree(document, "u")
    /\ UNCHANGED <<profile, summary, document, argument, returned>>
    /\ UNCHANGED batch_vars
    /\ UNCHANGED photo_vars

NextParse == ParseDocument

\* parse_montant called on a text.
ParseMontant ==
    /\ returned = <<>>
    /\ returned' = <<parse_montant(argument)>>
    /\ UNCHANGED <<profile, summary, document, declaration, argument>>
    /\ UNCHANGED batch_vars
    /\ UNCHANGED photo_vars

NextMontant == ParseMontant

\* normalize_name called on each of two names.
NormalizeNames ==
    /\ returned = <<>>
    /\ returned' = <<normalize_name(argument[1]), normalize_name(argument[2])>>
    /\ UNCHANGED <<profile, summary, document, declaration, argument>>
    /\ UNCHANGED batch_vars
    /\ UNCHANGED photo_vars

\* normalize_name called on the key it returned for the first name.
NormalizeKey ==
    /\ Len(returned) = 2
    /\ returned' = Append(returned, normalize_name(returned[1]))
    /\ UNCHANGED <<profile, summary, document, declaration, argument>>
    /\ UNCHANGED batch_vars
    /\ UNCHANGED photo_vars

NextName == NormalizeNames \/ NormalizeKey

\* ------------------------------------------------------------------------
\* scrape-photos.py
\* ------------------------------------------------------------------------

\* A path is the sequence of its segments, the file name without its .jpg;
\* the empty path is the empty text.
photo_path(elu_id) == <<"photos", elu_id>>

PlaceholderPath == <<"photos", "placeholder">>

\* The text ends with the person's file name (line 381).
ends_with_jpg(path, elu_id) == path # <<>> /\ path[Len(path)] = elu_id

\* http_get (lines 84-101) on what the server sends: nothing, or bytes that
\* start or not as an image, of some length, holding or not an HTML page.
photo_http_get(answer) ==
    IF answer = None THEN None
    ELSE IF answer[1].magic THEN answer
    ELSE IF answer[1].size > MIN_IMAGE_SIZE /\ ~answer[1].html THEN answer
    ELSE None

\* is_valid_image (lines 104-117).
is_valid_image(data) == data.size >= MIN_IMAGE_SIZE /\ data.magic

\* save_image (lines 141-150) tells whether it kept the data.
save_image(data, dry_run) == is_valid_image(data)

\* try_assemblee_nationale (lines 182-199) over the answers of its three
\* URLs: whether one of them gave a photo.
try_assemblee_nationale(id_an, dry_run, answers) ==
    IF id_an = "" THEN FALSE
    ELSE IF dry_run THEN TRUE
    ELSE \E k \in 1..Len(answers) :
            /\ photo_http_get(answers[k]) # None
            /\ save_image(photo_http_get(answers[k])[1], FALSE)

\* try_senat (lines 202-218).
try_senat(id_senat, dry_run, answer) ==
    IF id_senat = "" THEN FALSE
    ELSE IF dry_run THEN TRUE
    ELSE /\ photo_http_get(answer) # None
         /\ save_image(photo_http_get(answer)[1], FALSE)

\* try_hatvp_photo (lines 221-240).
try_hatvp_photo(nom, prenom, dry_run, answer) ==
    IF nom = <<>> \/ prenom = <<>> THEN FALSE
    ELSE IF dry_run THEN TRUE
    ELSE /\ photo_http_get(answer) # None
         /\ save_image(photo_http_get(answer)[1], FALSE)

\* The person's Assemblee id (lines 256 and 264-268): the field, else the last
\* segment of the link, else the segment after /deputes/ or /depute/.
id_an_of(elu) ==
    LET lien == elu.liens_assemblee
        last == IF lien = <<>> THEN "" ELSE lien[Len(lien)]
        after == {k \in 3..Len(lien) :
                     lien[k - 1] \in {"deputes", "depute"} /\ lien[k] # ""}
    IN  IF elu.id_an # "" THEN elu.id_an
        ELSE IF last # "" THEN last
        ELSE IF after # {} THEN lien[CHOOSE k \in after : \A j \in after : k <= j]
        ELSE ""

\* Lines 274-277: a mandate that names the Senate.
is_senateur(mandats) ==
    \E k \in 1..Len(mandats) : mandats[k] \in {"Sénateur", "Sénatrice", "Sénat"}

\* download_photo_for_elu (lines 247-313): <<TRUE>> a photo was taken, None
\* the file was there, <<FALSE>> no source gave one; the files of the photos
\* directory after the call; the sources called, in order.
download_photo_for_elu(elu, force, dry_run, no_hatvp, answers, files) ==
    LET id_an == id_an_of(elu)
        senateur == is_senateur(elu.mandats)
        first == IF id_an # "" /\ ~senateur THEN <<"AN">> ELSE <<>>
        second == IF senateur \/ elu.id_senat # "" THEN <<"Senat">> ELSE <<>>
        third == IF ~no_hatvp THEN <<"HATVP">> ELSE <<>>
        fourth == IF id_an # "" /\ senateur THEN <<"AN">> ELSE <<>>
        plan == first \o second \o third \o fourth
        gives(source) ==
            IF source = "AN"
            THEN try_assemblee_nationale(id_an, dry_run, answers.an)
            ELSE IF source = "Senat"
            THEN try_senat(elu.id_senat, dry_run, answers.senat)
            ELSE try_hatvp_photo(elu.nom, elu.prenom, dry_run, answers.hatvp)
        hits == {k \in 1..Len(plan) : gives(plan[k])}
        stop == IF hits = {} THEN Len(plan)
                ELSE CHOOSE k \in hits : \A j \in hits : k <= j
    IN  IF ~force /\ elu.id \in files
        THEN [result |-> None, photos |-> files, tried |-> <<>>]
        ELSE [result |-> <<hits # {}>>,
              photos |-> IF hits # {} /\ ~dry_run
                         THEN files \cup {elu.id} ELSE files,
              tried |-> SubSeq(plan, 1, stop)]

\* What a server may send for one URL: nothing, an image, an image too
\* small, an HTML page, other bytes.
Image == <<[magic |-> TRUE, size |-> 4096, html |-> FALSE]>>

SmallImage == <<[magic |-> TRUE, size |-> 100, html |-> FALSE]>>

Page == <<[magic |-> FALSE, size |-> 4096, html |-> TRUE]>>

Bytes == <<[magic |-> FALSE, size |-> 4096, html |-> FALSE]>>

PhotoAnswers == {None, Image, SmallImage, Page, Bytes}

\* What the three URLs of the Assemblee may send.
AssembleeAnswers ==
    {<<None, None, None>>, <<Image, None, None>>, <<SmallImage, Page, Image>>,
     <<None, Image, Bytes>>, <<Page, Bytes, SmallImage>>}

\* main of scrape-photos up to its loop (lines 336-357): the placeholder
\* image is drawn when Pillow is installed, and the list is cut to the limit.
LoadPhotoElus ==
    /\ pc = "start"
    /\ \E pillow \in BOOLEAN :
          photos' = IF pillow THEN photos \cup {"placeholder"} ELSE photos
    /\ elus' = limited(elus_file, args.limit)
    /\ counters' = [downloaded |-> 0, skipped |-> 0, failed |-> 0]
    /\ updated' = <<>>
    /\ i' = 1
    /\ pc' = "loop"
    /\ UNCHANGED <<index, elus_file, details, xml_cache, args, net, today, runs,
                   log, parsed, index_cache, progress_file, unwritable, tried>>
    /\ UNCHANGED call_vars

\* One iteration of the loop of lines 359-386.
DownloadPhoto ==
    /\ pc = "loop"
    /\ i <= Len(elus)
    /\ \E an \in AssembleeAnswers, senat \in PhotoAnswers, hatvp \in PhotoAnswers :
       \E got \in {download_photo_for_elu(
                      elus[i], args.force, args.dry_run, args.no_hatvp,
                      [an |-> an, senat |-> senat, hatvp |-> hatvp], photos)} :
       LET elu == elus[i]
           elu_id == elu.id
           with_path == [id \in DOMAIN updated \cup {elu_id} |->
                            IF id = elu_id THEN photo_path(elu_id) ELSE updated[id]]
       IN  /\ photos' = got.photos
           /\ tried' = got.tried
           /\ IF got.result = <<TRUE>>
              THEN /\ counters' = [counters EXCEPT !.downloaded = @ + 1]
                   /\ updated' = with_path
                   /\ elus' = IF args.dry_run THEN elus
                              ELSE [elus EXCEPT ![i].photo = photo_path(elu_id)]
              ELSE IF got.result = None
              THEN /\ counters' = [counters EXCEPT !.skipped = @ + 1]
                   /\ updated' = IF elu_id \in photos /\ ~ends_with_jpg(elu.photo, elu_id)
                                 THEN with_path ELSE updated
                   /\ UNCHANGED elus
              ELSE /\ counters' = [counters EXCEPT !.failed = @ + 1]
                   /\ elus' = IF ~args.dry_run /\ elu.photo = <<>>
                              THEN [elus EXCEPT ![i].photo = PlaceholderPath]
                              ELSE elus
                   /\ UNCHANGED updated
    /\ i' = i + 1
    /\ UNCHANGED <<index, elus_file, details, xml_cache, args, net, today, runs,
                   pc, log, parsed, index_cache, progress_file, unwritable>>
    /\ UNCHANGED call_vars

\* Lines 388-394: elus.json is read again and takes the paths of updated.
SavePhotos ==
    /\ pc = "loop"
    /\ i > Len(elus)
    /\ elus_file' =
          IF ~args.dry_run /\ DOMAIN updated # {}
          THEN [k \in 1..Len(elus_file) |->
                   IF elus_file[k].id \in DOMAIN updated
                   THEN [elus_file[k] EXCEPT !.photo = updated[elus_file[k].id]]
                   ELSE elus_file[k]]
          ELSE elus_file
    /\ pc' = "done"
    /\ UNCHANGED <<index, elus, details, xml_cache, args, net, today, runs, i,
                   counters, log, parsed, index_cache, progress_file, unwritable>>
    /\ UNCHANGED call_vars
    /\ UNCHANGED photo_vars

NextPhotos == LoadPhotoElus \/ DownloadPhoto \/ SavePhotos

\* ------------------------------------------------------------------------
\* Inputs
\* ------------------------------------------------------------------------

Jean == <<"J", "e", "a", "n">>

JEAN_padded == <<" ", "J", "E", "A", "N", " ">>

Paul == <<"P", "a", "u", "l">>

Dupont == <<"D", "u", "p", "o", "n", "t">>

DUPONT == <<"D", "U", "P", "O", "N", "T">>

Dupond == <<"D", "u", "p", "o", "n", "d">>

Martin == <<"M", "a", "r", "t", "i", "n">>

D_2022_01_10_fr == [sep |-> "/", f |-> <<10, 1, 2022>>]

D_2022_03_15_ts == [sep |-> "/", f |-> <<15, 3, 2022, 10, 0, 0>>]

D_2023_06_01_iso == [sep |-> "-", f |-> <<2023, 6, 1>>]

SeqsUpTo(S, n) == UNION {[1..k -> S] : k \in 0..n}

\* The k-th row of an index: the declaration it describes is published in a
\* file of its own, which states the same type and filing date.
MkRow(d, k) ==
    [nom |-> d.nom, prenom |-> d.prenom, typeDeclaration |-> d.type,
     dateDepot |-> d.date, ident |-> d.ident,
     fichier |-> IF d.body = "" THEN NoFile
                 ELSE [n |-> k, body |-> d.body, type |-> d.type, date |-> d.date]]

MkIndex(ds) == [k \in 1..Len(ds) |-> MkRow(ds[k], k)]

MkElu(id, prenom, nom, ident) ==
    [id |-> id, prenom |-> prenom, nom |-> nom, ident |-> ident,
     hatvp_complete |-> None]

ElusIds == {"e1", "e2"}

\* Two persons an identifier tells apart.
ElusDistinct ==
    <<MkElu("e1", Jean, Dupont, "ID1"), MkElu("e2", Paul, Martin, "ID2")>>

\* Two persons of the same name, neither with an identifier.
ElusHomonyms ==
    <<MkElu("e1", Jean, Dupont, ""), MkElu("e2", Jean, DUPONT, "")>>

TypeOfBody(b) ==
    CASE b = "A" -> "DSP" [] b = "B" -> "DSPM" [] b = "C" -> "DI"
      [] b = "D" -> "DIM" [] OTHER -> "DI"

BodyOfType(t) ==
    CASE t = "DSP" -> "A" [] t = "DSPM" -> "B" [] t = "DI" -> "C" [] OTHER -> "D"

MainDates == {D_2022_01_10_fr, D_2022_03_15_ts, D_2023_06_01_iso}

\* Declarations of Jean Dupont, one of a homonym-free other name carrying
\* Jean Dupont's identifier, and one under his name with a foreign identifier.
MainRows ==
    {[nom |-> DUPONT, prenom |-> Jean, type |-> TypeOfBody(b), date |-> d,
      body |-> b, ident |-> ""] : b \in {"A", "B", "C"}, d \in MainDates}
    \cup {[nom |-> DUPONT, prenom |-> Jean, type |-> TypeOfBody(b),
            date |-> D_2023_06_01_iso, body |-> b, ident |-> ""] : b \in {"D", "X"}}
    \cup {[nom |-> Dupond, prenom |-> Jean, type |-> "DSP",
            date |-> D_2023_06_01_iso, body |-> "B", ident |-> "ID1"],
           [nom |-> Dupont, prenom |-> Jean, type |-> "DI",
            date |-> D_2022_03_15_ts, body |-> "C", ident |-> "ID9"]}

\* One date in each format of line 261, and the empty text.
SelectDates == {D_2022_01_10_fr, D_2022_03_15_ts, D_2023_06_01_iso, NoDate}

SelectRows ==
    {[nom |-> Dupont, prenom |-> Jean, type |-> t, date |-> d,
      body |-> BodyOfType(t), ident |-> ""] : t \in WANTED_TYPES, d \in SelectDates}

NameAlphabet == {"a", "A", "b", "a_grave", "comb_grave", "-", " "}

MatchTargets == {<<"a", "-", "b">>, <<"a_grave">>, <<"-">>}

MatchRows ==
    {[nom |-> n, prenom |-> p, type |-> "DSP", date |-> D_2022_01_10_fr,
      body |-> "A", ident |-> ""] :
        n \in SeqsUpTo(NameAlphabet, MaxNameLen), p \in {JEAN_padded, Paul}}

RunsRows ==
    {[nom |-> Dupont, prenom |-> Jean, type |-> TypeOfBody(b),
      date |-> D_2022_01_10_fr, body |-> b, ident |-> ""] : b \in {"A", "C"}}

Start(idx, people, a, n) ==
    /\ index = idx
    /\ elus_file = people
    /\ elus = people
    /\ details = [id \in ElusIds |-> None]
    /\ xml_cache = {}
    /\ args = a
    /\ net = n
    /\ today = 1
    /\ runs = 1
    /\ pc = "loop"
    /\ i = 1
    /\ counters = ZeroCounters
    /\ log = {}
    /\ parsed = <<>>
    /\ index_cache = <<1>>
    /\ progress_file = None
    /\ unwritable = {}
    /\ NoPhotos
    /\ profile = None
    /\ summary = None
    /\ document = None
    /\ declaration = None
    /\ argument = None
    /\ returned = <<>>

\* The batch over short indexes of varied documents, any download failing.
Init ==
    \E ds \in SeqsUpTo(MainRows, MaxIndex), people \in {ElusDistinct, ElusHomonyms},
       force \in BOOLEAN, dry_run \in BOOLEAN :
        Start(MkIndex(ds), people, Args(force, dry_run, FALSE), "flaky")

\* The batch for one person over every index of rows of every type and date.
InitSelect ==
    \E ds \in SeqsUpTo(SelectRows, MaxRows) :
        Start(MkIndex(ds), <<MkElu("e1", Jean, Dupont, "")>>,
              Args(FALSE, FALSE, FALSE), "up")

\* The batch for one person over one-row indexes of every short name.
InitMatch ==
    \E d \in MatchRows, nom \in MatchTargets :
        Start(MkIndex(<<d>>), <<MkElu("e1", Jean, nom, "")>>,
              Args(FALSE, FALSE, FALSE), "up")

\* Successive invocations over the same index.
InitRuns ==
    \E ds \in SeqsUpTo(RunsRows, MaxIndex),
       force \in BOOLEAN, dry_run \in BOOLEAN, n \in {"up", "flaky"} :
        Start(MkIndex(ds), ElusDistinct, Args(force, dry_run, FALSE), n)

\* The kinds of files whose writing may fail, one at a time: the cached XML
\* documents, the details files, elus.json, the progress file.
WriteFailures == {{}, {"xmls"}, {"details"}, {"elus"}, {"progress"}}

JeanDupontRow(b) ==
    [nom |-> Dupont, prenom |-> Jean, type |-> TypeOfBody(b),
     date |-> D_2022_01_10_fr, body |-> b, ident |-> ""]

\* Indexes for one invocation: no row, a patrimony declaration, an interests
\* declaration beside it, a file that is not XML alone and beside it.
MainIndexes ==
    {MkIndex(<<>>), MkIndex(<<JeanDupontRow("A")>>),
     MkIndex(<<JeanDupontRow("A"), JeanDupontRow("C")>>),
     MkIndex(<<JeanDupontRow("X")>>),
     MkIndex(<<JeanDupontRow("A"), JeanDupontRow("X")>>)}

\* The summary an earlier run stored for a person, of the patrimony
\* declaration "A" scraped on day 0.
StoredResume ==
    LET url == get_xml_url(MkRow(JeanDupontRow("A"), 1))
    IN  build_resume_complet(
            consolidate(new_result(Jean, Dupont, 0, 1), parse_declaration_xml(url), url))

\* The values of --test-elu: none, a person of elus.json, a person whom two
\* spaces keep from being found there, a first name in lower case.
TestQueries ==
    {None, Jean \o <<" ">> \o Dupont, Jean \o <<" ", " ">> \o Dupont,
     <<"p", "a", "u", "l">>}

\* Two persons, the first with or without a stored summary.
MainElus ==
    {ElusDistinct, [ElusDistinct EXCEPT ![1].hatvp_complete = StoredResume]}

\* One invocation of main from its first line, over every combination of
\* options, with and without a cached index of the day, any download failing
\* and at most one kind of file that cannot be written.
InitMain ==
    /\ index \in MainIndexes
    /\ elus_file \in MainElus
    /\ elus = <<>>
    /\ details = [id \in ElusIds \cup {"test"} |-> None]
    /\ xml_cache = {}
    /\ \E force \in BOOLEAN, dry_run \in BOOLEAN, skip_existing \in BOOLEAN,
          limit \in {0, 1}, refresh_index \in BOOLEAN, test_elu \in TestQueries :
          args = [Args(force, dry_run, skip_existing) EXCEPT
                    !.limit = limit, !.refresh_index = refresh_index,
                    !.test_elu = test_elu]
    /\ net = "flaky"
    /\ today = 1
    /\ runs = 1
    /\ pc = "start"
    /\ i = 1
    /\ counters = ZeroCounters
    /\ log = {}
    /\ parsed = <<>>
    /\ index_cache \in {None, <<1>>}
    /\ progress_file = None
    /\ unwritable \in WriteFailures
    /\ NoPhotos
    /\ profile = None
    /\ summary = None
    /\ document = None
    /\ declaration = None
    /\ argument = None
    /\ returned = <<>>

\* The batch over as many persons as an incremental save takes, each with
\* one declaration that downloads, at most one kind of file failing.
InitInterval ==
    /\ index = MkIndex(<<JeanDupontRow("A")>>)
    /\ elus_file = [k \in 1..SAVE_INTERVAL |-> MkElu(k, Jean, Dupont, "")]
    /\ elus = elus_file
    /\ details = [id \in 1..SAVE_INTERVAL |-> None]
    /\ xml_cache = {}
    /\ \E dry_run \in BOOLEAN : args = Args(FALSE, dry_run, FALSE)
    /\ net = "up"
    /\ today = 1
    /\ runs = 1
    /\ pc = "loop"
    /\ i = 1
    /\ counters = ZeroCounters
    /\ log = {}
    /\ parsed = <<>>
    /\ index_cache = <<1>>
    /\ progress_file = None
    /\ unwritable \in WriteFailures
    /\ NoPhotos
    /\ profile = None
    /\ summary = None
    /\ document = None
    /\ declaration = None
    /\ argument = None
    /\ returned = <<>>

\* No batch is running.
NoBatch ==
    /\ index = <<>>
    /\ elus_file = <<>>
    /\ elus = <<>>
    /\ details = [id \in ElusIds |-> None]
    /\ xml_cache = {}
    /\ args = Args(FALSE, FALSE, FALSE)
    /\ net = "up"
    /\ today = 1
    /\ runs = 1
    /\ pc = "done"
    /\ i = 1
    /\ counters = ZeroCounters
    /\ log = {}
    /\ parsed = <<>>
    /\ index_cache = None
    /\ progress_file = None
    /\ unwritable = {}
    /\ NoPhotos

FI_unknown == [FI_5000 EXCEPT !.valeur_euro = None]

PART_20000 ==
    [type |-> "participation_financiere", nom_societe |-> "SCI",
     valeur_euro |-> <<20000>>]

PART_unknown == [PART_20000 EXCEPT !.valeur_euro = None]

RE_300000 == [RE_250000 EXCEPT !.valeur_euro = <<300000>>]

RE_unknown == [RE_250000 EXCEPT !.valeur_euro = None]

VEHICULE_7000 ==
    [type |-> "autre_bien", description |-> "Voiture", valeur_euro |-> <<7000>>]

VEHICULE_unknown == [VEHICULE_7000 EXCEPT !.valeur_euro = None]

PRET_unknown == [PRET_100000 EXCEPT !.capital_restant_du_euro = None]

FONCTION_president == [type |-> "fonction_dirigeante", fonction |-> "President"]

\* The records a profile may hold, each under the key of its list.
ProfileEntries ==
    {[kind |-> "instruments_financiers", rec |-> r] : r \in {FI_5000, FI_unknown}}
    \cup {[kind |-> "participations_financieres", rec |-> r] :
             r \in {PART_20000, PART_unknown}}
    \cup {[kind |-> "biens_immobiliers", rec |-> r] : r \in {RE_300000, RE_unknown}}
    \cup {[kind |-> "autres_biens", rec |-> r] : r \in {VEHICULE_7000, VEHICULE_unknown}}
    \cup {[kind |-> "prets_bancaires", rec |-> r] : r \in {PRET_100000, PRET_unknown}}
    \cup {[kind |-> "revenus_activites", rec |-> r] :
             r \in {REVENU_60000, REVENU_unknown}}
    \cup {[kind |-> "mandats_electifs", rec |-> MANDAT_depute],
           [kind |-> "fonctions_dirigeantes", rec |-> FONCTION_president]}

EntriesOfKind(entries, kind) ==
    LET sel == SelectSeq(entries, LAMBDA x : x.kind = kind)
    IN  [k \in 1..Len(sel) |-> sel[k].rec]

\* The result of lines 969-986 holding these records.
MkProfile(entries) ==
    [new_result(Jean, Dupont, 1, 1) EXCEPT
       !.instruments_financiers = EntriesOfKind(entries, "instruments_financiers"),
       !.participations_financieres =
           EntriesOfKind(entries, "participations_financieres"),
       !.biens_immobiliers = EntriesOfKind(entries, "biens_immobiliers"),
       !.prets_bancaires = EntriesOfKind(entries, "prets_bancaires"),
       !.autres_biens = EntriesOfKind(entries, "autres_biens"),
       !.revenus_activites = EntriesOfKind(entries, "revenus_activites"),
       !.mandats_electifs = EntriesOfKind(entries, "mandats_electifs"),
       !.fonctions_dirigeantes = EntriesOfKind(entries, "fonctions_dirigeantes")]

\* build_resume_complet alone, over every profile of at most MaxRecords
\* records, with or without their amount.
InitResume ==
    /\ NoBatch
    /\ \E entries \in SeqsUpTo(ProfileEntries, MaxRecords) :
          profile = MkProfile(entries)
    /\ summary = None
    /\ document = None
    /\ declaration = None
    /\ argument = None
    /\ returned = <<>>

\* A field an item may hold: the path of its element from the item and the
\* text that states its value.
Field(path, value) == [path |-> path, value |-> value]

\* For each section the parsers look for, fields its items may hold: names
\* of the parser's lists of accepted names, in the order of the lists, and
\* for some sections a name no list accepts.
SectionFields(tag) ==
    CASE tag = "instrumentsFinanciersDto" ->
           <<Field(<<"nature", "label">>, <<"a">>),
             Field(<<"typeInstrument", "label">>, <<" ", "b", " ">>),
             Field(<<"nature", "id">>, <<"d">>),
             Field(<<"valeur">>, <<"5", "0", "0", "0">>),
             Field(<<"valeurEstimee">>, <<"6", " ", "0", "0", "0", ",", "0", "0">>),
             Field(<<"codeISIN">>, <<"F", "R">>)>>
      [] tag = "participationFinanciereDto" ->
           <<Field(<<"nomSociete">>, <<"a">>),
             Field(<<"denomination">>, <<"b">>),
             Field(<<"valeurParts">>, <<"2", "nbsp", "0", "0", "0">>),
             Field(<<"siren">>, <<"9">>),
             Field(<<"autre">>, <<"z">>)>>
      [] tag = "biensImmobiliersDto" ->
           <<Field(<<"nature", "id">>, <<"a">>),
             Field(<<"adresse">>, <<"b">>),
             Field(<<"commune">>, <<"d">>),
             Field(<<"valeur">>, <<"3", "0", "0", "0", "0", "0">>),
             Field(<<"montant">>, <<"2", "5", "0", "0", "0", "0">>)>>
      [] tag = "pretsBancairesDto" ->
           <<Field(<<"montant">>, <<"9", "0", "0", "0">>),
             Field(<<"capitalRestantDu">>, <<"4", "0", "0", "0">>),
             Field(<<"solde">>, <<"3", "0", "0", "0">>),
             Field(<<"etablissement">>, <<"a">>),
             Field(<<"preteur">>, <<"b">>)>>
      [] tag = "autresBiensDto" ->
           <<Field(<<"description">>, <<"a">>),
             Field(<<"libelle">>, <<"b">>),
             Field(<<"valeur">>, <<"7", "0", "0", "0">>),
             Field(<<"commentaire">>, <<"d">>),
             Field(<<"autre">>, <<"z">>)>>
      [] tag = "revenusDto" ->
           <<Field(<<"nature", "label">>, <<"a">>),
             Field(<<"employeur">>, <<"b">>),
             Field(<<"montant">>, <<"8", "0", "0", "0">>),
             Field(<<"montantAnnuel">>, <<"6", "0", "0", "0", "0">>),
             Field(<<"activite">>, <<"d">>)>>
      [] tag = "activitesRemunerees" ->
           <<Field(<<"employeur">>, <<"a">>),
             Field(<<"fonction">>, <<"b">>),
             Field(<<"activite">>, <<"d">>),
             Field(<<"montant">>, <<"1", "0", "0", "0">>)>>
      [] tag = "mandatsElectifsDto" ->
           <<Field(<<"nature", "label">>, <<"a">>),
             Field(<<"fonction">>, <<"b">>),
             Field(<<"qualite">>, <<"d">>),
             Field(<<"enCours">>, <<"T", "R", "U", "E">>),
             Field(<<"collectivite">>, <<"e">>)>>
      [] tag = "fonctionsDto" ->
           <<Field(<<"fonction">>, <<"a">>),
             Field(<<"titre">>, <<"b">>),
             Field(<<"organisme">>, <<"d">>),
             Field(<<"remuneree">>, <<"t", "r", "u", "e">>),
             Field(<<"montant">>, <<"5", "0", "0">>)>>
      [] OTHER ->
           <<Field(<<"dateNaissance">>, <<"2", "0", "1", "0">>),
             Field(<<"anneeNaissance">>, <<"2", "0", "1", "2">>),
             Field(<<"aCharge">>, <<"t", "r", "u", "e">>)>>

SectionTags ==
    {"instrumentsFinanciersDto", "participationFinanciereDto", "biensImmobiliersDto",
     "pretsBancairesDto", "autresBiensDto", "revenusDto", "activitesRemunerees",
     "mandatsElectifsDto", "fonctionsDto", "enfantsDto"}

\* What an element of a document states: its value, blanks, the placeholder
\* of the unpublished data, or words where a number or a name is expected.
TextStates == {"stated", "blank", "unpublished", "words"}

TextOf(field, state) ==
    CASE state = "stated" -> field.value
      [] state = "blank" -> <<" ">>
      [] state = "unpublished" -> Unpublished
      [] OTHER -> <<"n", "c">>

RECURSIVE Ascending(_)
Ascending(S) ==
    IF S = {} THEN <<>>
    ELSE LET m == CHOOSE x \in S : \A y \in S : x <= y
         IN  <<m>> \o Ascending(S \ {m})

\* The child elements of an item that holds the chosen fields, chosen giving
\* what each states; the fields of a common parent ("nature/label" and
\* "nature/id") share one element, whose text is the filler of the layout.
ItemKids(fields, chosen, filler) ==
    LET idx == Ascending(DOMAIN chosen)
        heads == SelectSeq(idx, LAMBDA k :
                     \A j \in DOMAIN chosen :
                         fields[j].path[1] = fields[k].path[1] => k <= j)
        ElementOfHead(k) ==
            LET h == fields[k].path[1]
                own == {j \in DOMAIN chosen : fields[j].path = <<h>>}
                subs == SelectSeq(idx, LAMBDA j :
                            Len(fields[j].path) = 2 /\ fields[j].path[1] = h)
            IN  Element(h,
                        IF own # {}
                        THEN LET j == CHOOSE j \in own : TRUE
                             IN  TextOf(fields[j], chosen[j])
                        ELSE filler,
                        [n \in 1..Len(subs) |->
                            Element(fields[subs[n]].path[2],
                                    TextOf(fields[subs[n]], chosen[subs[n]]), <<>>)])
    IN  [n \in 1..Len(heads) |-> ElementOfHead(heads[n])]

\* An item element without any child, as the source documents hold.
Placeholder == Element("items", <<>>, <<>>)

Neant(text) == Element("neant", text, <<>>)

SectionShapes ==
    {"flat", "nested", "flat_neant", "nested_neant", "flat_placeholders",
     "content_over_empty", "content_beside_empty", "nested_twice", "indented",
     "neant_alone", "childless"}

\* The child elements of a section of each shape around one item.
SectionKids(shape, fields, chosen) ==
    LET kids == ItemKids(fields, chosen, <<>>)
        item == Element("items", <<>>, kids)
    IN  CASE shape = "flat" -> <<item>>
          [] shape = "nested" -> <<Element("items", <<>>, <<item>>)>>
          [] shape = "flat_neant" -> <<Neant(<<"t", "r", "u", "e">>), item>>
          [] shape = "nested_neant" ->
               <<Neant(<<" ", "T", "r", "u", "e", " ">>),
                 Element("items", <<>>, <<item, Placeholder>>)>>
          [] shape = "flat_placeholders" ->
               <<Neant(<<"f", "a", "l", "s", "e">>), Placeholder, item, Placeholder>>
          [] shape = "content_over_empty" ->
               <<Element("items", <<>>, kids \o <<Placeholder>>)>>
          [] shape = "content_beside_empty" ->
               <<item, Element("items", <<>>, <<Placeholder>>)>>
          [] shape = "nested_twice" -> <<Element("items", <<>>, <<item, item>>)>>
          [] shape = "indented" ->
               <<Element("items", <<" ">>,
                         <<Element("items", <<" ">>, ItemKids(fields, chosen, <<" ">>))>>)>>
          [] shape = "neant_alone" -> <<Neant(<<"t", "r", "u", "e">>)>>
          [] OTHER -> <<>>

\* A document of one section.
MkDocument(tag, shape, chosen) ==
    Element("declaration", <<>>,
            <<Element(tag, IF shape = "indented" THEN <<" ">> ELSE <<>>,
                      SectionKids(shape, SectionFields(tag), chosen))>>)

\* parse_declaration_xml alone, over a file that is not XML, a document
\* without any section, and the documents of one section of every shape
\* whose item holds at most MaxFields fields.
InitParse ==
    /\ NoBatch
    /\ profile = None
    /\ summary = None
    /\ declaration = None
    /\ argument = None
    /\ returned = <<>>
    /\ \/ document = NotXML
       \/ document = Element("declaration", <<>>, <<>>)
       \/ \E tag \in SectionTags, shape \in SectionShapes :
          \E S \in {T \in SUBSET (1..Len(SectionFields(tag))) :
                        Cardinality(T) <= MaxFields} :
          \E chosen \in [S -> TextStates] :
              document = MkDocument(tag, shape, chosen)

\* No call of the batch, of build_resume_complet or of the parsers.
NoCall ==
    /\ NoBatch
    /\ profile = None
    /\ summary = None
    /\ document = None
    /\ declaration = None

\* The characters of the texts handed to parse_montant: digits, the decimal
\* comma and point, the space and the non-breaking space, the euro sign.
MontantAlphabet == {"0", "1", "5", ",", ".", " ", "nbsp", "EUR"}

\* parse_montant alone, over every text of at most MaxTextLen characters.
InitMontant ==
    /\ NoCall
    /\ argument \in SeqsUpTo(MontantAlphabet, MaxTextLen)
    /\ returned = <<>>

\* Names to compare every short name with.
NameTargets ==
    {<<"a", "-", "b">>, <<"a_grave">>, <<" ", "A", " ", "-", "b", "-">>}

\* "Yaël Braun-Pivet" and "yael   braun pivet".
YaelBraunPivet ==
    <<"Y", "a", "e_diaeresis", "l", " ", "B", "r", "a", "u", "n", "-",
      "P", "i", "v", "e", "t">>

yael_braun_pivet ==
    <<"y", "a", "e", "l", " ", " ", " ", "b", "r", "a", "u", "n", " ",
      "p", "i", "v", "e", "t">>

\* normalize_name alone, over every short name beside a few chosen ones, and
\* over the two spellings of one full name.
InitName ==
    /\ NoCall
    /\ argument \in (SeqsUpTo(NameAlphabet, MaxNameLen) \X NameTargets)
                     \cup {<<YaelBraunPivet, yael_braun_pivet>>}
    /\ returned = <<>>

\* The options of scrape-photos (lines 65-77); no --limit is 0.
PhotoArgs(force, dry_run, no_hatvp, limit) ==
    [force |-> force, dry_run |-> dry_run, no_hatvp |-> no_hatvp, limit |-> limit]

\* A person of elus.json as scrape-photos reads it.
MkPhotoElu(id, id_an, id_senat, mandats, lien, photo) ==
    [id |-> id, prenom |-> Jean, nom |-> Dupont, id_an |-> id_an,
     id_senat |-> id_senat, mandats |-> mandats, liens_assemblee |-> lien,
     photo |-> photo]

\* A deputy, a senator who also has an Assemblee id, a minister known by a
\* link only, and a person who has a photo from elsewhere.
PhotoElus(id) ==
    {MkPhotoElu(id, "PA1", "", <<"Député">>, <<>>, <<>>),
     MkPhotoElu(id, "PA2", "S2", <<"Sénateur">>, <<>>, <<>>),
     MkPhotoElu(id, "", "", <<"Ministre">>,
                <<"https:", "", "an.fr", "deputes", "PA3", "">>, <<>>),
     MkPhotoElu(id, "", "", <<>>, <<>>, <<"https:", "", "x.org", "jean">>)}

\* scrape-photos starts on two persons, some photos being there already.
InitPhotos ==
    /\ index = <<>>
    /\ elus_file \in {<<a, b>> : a \in PhotoElus("e1"), b \in PhotoElus("e2")}
    /\ elus = <<>>
    /\ details = [id \in ElusIds |-> None]
    /\ xml_cache = {}
    /\ \E force \in BOOLEAN, dry_run \in BOOLEAN, no_hatvp \in BOOLEAN,
          limit \in {0, 1} :
          args = PhotoArgs(force, dry_run, no_hatvp, limit)
    /\ net = "flaky"
    /\ today = 1
    /\ runs = 1
    /\ pc = "start"
    /\ i = 1
    /\ counters = [downloaded |-> 0, skipped |-> 0, failed |-> 0]
    /\ log = {}
    /\ parsed = <<>>
    /\ index_cache = None
    /\ progress_file = None
    /\ unwritable = {}
    /\ profile = None
    /\ summary = None
    /\ document = None
    /\ declaration = None
    /\ argument = None
    /\ returned = <<>>
    /\ photos \in SUBSET {"e1", "e2"}
    /\ updated = <<>>
    /\ tried = <<>>

Spec == Init /\ [][Next]_vars

SpecSelect == InitSelect /\ [][Next]_vars

SpecMatch == InitMatch /\ [][Next]_vars

SpecRuns == InitRuns /\ [][NextRuns]_vars

SpecMain == InitMain /\ [][NextMain]_vars

SpecInterval == InitInterval /\ [][Next]_vars

SpecResume == InitResume /\ [][NextResume]_vars

SpecParse == InitParse /\ [][NextParse]_vars

SpecMontant == InitMontant /\ [][NextMontant]_vars

SpecName == InitName /\ [][NextName]_vars

SpecPhotos == InitPhotos /\ [][NextPhotos]_vars

\* ------------------------------------------------------------------------
\* Vocabulary of the properties
\* ------------------------------------------------------------------------

PatrimonyGroup == {"DSP", "DSPM"}

InterestsGroup == {"DI", "DIM"}

Groups == {PatrimonyGroup, InterestsGroup}

Range(f) == {f[k] : k \in DOMAIN f}

\* The positions of the index rows the program attributes to a person.
RowsOf(elu) ==
    {k \in 1..Len(index) :
        /\ row_nom(index[k]) # <<>>
        /\ normalize_name(row_nom(index[k])) = normalize_name(strip(elu.nom))
        /\ normalize_name(row_prenom(index[k])) = normalize_name(strip(elu.prenom))}

GroupRowsOf(elu, G) == {k \in RowsOf(elu) : get_declaration_type(index[k]) \in G}

\* The person's profile was consolidated and written in this run.
Consolidated(elu) == details[elu.id] # None

\* The index positions of the declarations of group G merged into a profile.
Retained(elu, G) ==
    {d.url.n : d \in {x \in Range(details[elu.id].declarations) : x.type \in G}}

DateAt(k) == parse_date(index[k])

Persons == Range(elus)

\* ------------------------------------------------------------------------
\* C1
\* ------------------------------------------------------------------------

\* C1: for every person and category group, the declaration retained is one
\* of the person's rows of that group and no row of the person in that group
\* has a greater filing date; none is retained when the person has no row of
\* the group.  (SpecSelect: every document downloads and parses.)
C1_MostRecentRetained ==
    \A e \in Persons : Consolidated(e) =>
        \A G \in Groups :
            LET rows == GroupRowsOf(e, G)
                kept == Retained(e, G)
            IN  /\ rows = {} => kept = {}
                /\ rows # {} =>
                      /\ Cardinality(kept) = 1
                      /\ kept \subseteq rows
                      /\ \A r \in kept, j \in rows : dt_leq(DateAt(j), DateAt(r))

\* Three patrimony declarations filed on D2, D3, D1 in that index order, the
\* one filed on D3 (the second row) retained.
C1_Witness ==
    /\ Len(index) = 3
    /\ \A k \in 1..3 : get_declaration_type(index[k]) \in PatrimonyGroup
    /\ dt_less(DateAt(3), DateAt(1))
    /\ dt_less(DateAt(1), DateAt(2))
    /\ Consolidated(elus[1])
    /\ Retained(elus[1], PatrimonyGroup) = {2}

\* ------------------------------------------------------------------------
\* C2
\* ------------------------------------------------------------------------

\* C2 (as claimed): when rows of one person and one group have equal filing
\* dates, the retained one is the one met later in the index, so no row of
\* the group with the retained row's date comes after the retained row.
C2_LaterEncounteredWins ==
    \A e \in Persons : Consolidated(e) =>
        \A G \in Groups :
            \A r \in Retained(e, G), j \in GroupRowsOf(e, G) :
                DateAt(j) = DateAt(r) => j <= r

\* ------------------------------------------------------------------------
\* C3
\* ------------------------------------------------------------------------

\* The index without the rows whose type is in G.
RECURSIVE without_group(_, _)
without_group(rows, G) ==
    IF rows = <<>> THEN <<>>
    ELSE IF get_declaration_type(Head(rows)) \in G THEN without_group(Tail(rows), G)
    ELSE <<Head(rows)>> \o without_group(Tail(rows), G)

\* The file the program selects for group G from a given index.
SelectedFrom(rows, e, G) ==
    LET found == find_declarations_for_elu(rows, strip(e.prenom), strip(e.nom))
        row == IF G = PatrimonyGroup THEN select_dsp(found) ELSE select_di(found)
    IN  IF row = None THEN {} ELSE {row.fichier.n}

Other(G) == IF G = PatrimonyGroup THEN InterestsGroup ELSE PatrimonyGroup

\* C3: the initial and amended variants compete as one group (at most one
\* declaration per group is retained), and the declaration retained for a
\* group is the one the selection retains from the index stripped of every
\* row of the other group: the other group's rows have no influence.
C3_GroupsIndependent ==
    \A e \in Persons : Consolidated(e) =>
        \A G \in Groups :
            /\ Cardinality(Retained(e, G)) <= 1
            /\ Retained(e, G) = SelectedFrom(without_group(index, Other(G)), e, G)

\* An initial and an amended patrimony declaration and an interests
\* declaration filed after both: the amended patrimony one is retained
\* together with the interests one.
C3_Witness ==
    /\ Len(index) = 3
    /\ get_declaration_type(index[1]) = "DI"
    /\ get_declaration_type(index[2]) = "DSP"
    /\ get_declaration_type(index[3]) = "DSPM"
    /\ dt_less(DateAt(2), DateAt(3))
    /\ dt_less(DateAt(3), DateAt(1))
    /\ Consolidated(elus[1])
    /\ Retained(elus[1], PatrimonyGroup) = {3}
    /\ Retained(elus[1], InterestsGroup) = {1}

\* ------------------------------------------------------------------------
\* C4
\* ------------------------------------------------------------------------

\* The rows of a person are exactly a patrimony declaration filed 2022-01-10
\* (document "A": one instrument valued 5000) and an amended patrimony
\* declaration filed 2023-06-01 (document "B": that instrument and a house
\* valued 250000).
C4_Scenario(e) ==
    \E a, b \in 1..Len(index) :
        /\ a # b
        /\ index[a].typeDeclaration = "DSP"
        /\ index[a].dateDepot = D_2022_01_10_fr
        /\ index[a].fichier.body = "A"
        /\ index[b].typeDeclaration = "DSPM"
        /\ index[b].dateDepot = D_2023_06_01_iso
        /\ index[b].fichier.body = "B"
        /\ RowsOf(e) = {a, b}

\* C4: in that scenario a profile consolidated from a downloaded document
\* holds exactly one financial instrument and one real-estate record, both
\* of the amended declaration, which is the only one merged.
C4_EndToEnd ==
    \A e \in Persons :
        (Consolidated(e) /\ C4_Scenario(e) /\ details[e.id].declarations # <<>>) =>
            LET p == details[e.id]
            IN  /\ p.instruments_financiers = <<FI_5000>>
                /\ p.biens_immobiliers = <<RE_250000>>
                /\ Len(p.declarations) = 1
                /\ p.declarations[1].type = "DSPM"

\* The scenario with the amended declaration first in the index.
C4_Witness ==
    /\ Len(index) = 2
    /\ index[1].typeDeclaration = "DSPM"
    /\ C4_Scenario(elus[1])
    /\ Consolidated(elus[1])
    /\ Len(details[elus[1].id].instruments_financiers) = 1
    /\ Len(details[elus[1].id].biens_immobiliers) = 1

\* ------------------------------------------------------------------------
\* C5
\* ------------------------------------------------------------------------

\* The letter a character stands for once case and accent are ignored, ""
\* for a combining mark.
BaseLetter(c) ==
    CASE c \in {"a", "A", "a_grave", "A_grave"} -> "a"
      [] c \in {"b", "B"} -> "b"
      [] c \in {"e", "E", "e_acute", "e_diaeresis"} -> "e"
      [] c \in {"comb_grave", "comb_acute", "comb_diaeresis"} -> ""
      [] c \in {"D", "J", "M", "N", "O", "P", "R", "T", "U", "Y"} ->
           LowerLetters[CHOOSE k \in 1..Len(UpperLetters) : UpperLetters[k] = c]
      [] OTHER -> c

IsBlank(c) == c \in {"-", " ", "nbsp"}

\* The words of a name: the maximal runs of letters between hyphens and
\* blanks, each letter without case or accent.
RECURSIVE WordsAcc(_, _, _)
WordsAcc(s, word, done) ==
    IF s = <<>> THEN (IF word = <<>> THEN done ELSE Append(done, word))
    ELSE IF IsBlank(Head(s))
    THEN WordsAcc(Tail(s), <<>>, IF word = <<>> THEN done ELSE Append(done, word))
    ELSE IF BaseLetter(Head(s)) = "" THEN WordsAcc(Tail(s), word, done)
    ELSE WordsAcc(Tail(s), Append(word, BaseLetter(Head(s))), done)

Words(s) == WordsAcc(s, <<>>, <<>>)

\* Two names differ at most by case, accents, hyphen versus space and
\* repeated, leading or trailing blanks.
SameName(a, b) == Words(a) = Words(b)

AllBlank(s) == \A k \in 1..Len(s) : s[k] \in {" ", "nbsp"}

\* C5: once the person has been looked up in a one-row index, a profile
\* exists exactly when the row's family name is not empty and the row's
\* family and given names are the person's up to case, accents, hyphen
\* versus space and repeated blanks.
C5_NameMatching ==
    (Len(index) = 1 /\ i > 1) =>
        (Consolidated(elus[1]) <=>
            /\ ~AllBlank(index[1].nom)
            /\ SameName(index[1].nom, elus[1].nom)
            /\ SameName(index[1].prenom, elus[1].prenom))

\* A row "A<grave> b" / " JEAN " attributed to the person "a-b" / "Jean":
\* case, accent, hyphen versus space and padding all differ.
C5_Witness ==
    /\ Len(index) = 1
    /\ index[1].nom = <<"A", "comb_grave", " ", "b">>
    /\ index[1].prenom = JEAN_padded
    /\ elus[1].nom = <<"a", "-", "b">>
    /\ Consolidated(elus[1])

\* ------------------------------------------------------------------------
\* C6
\* ------------------------------------------------------------------------

\* Whether a row belongs to a person when identifiers, where both sides
\* carry one, decide instead of names.
BelongsByIdentifier(k, e) ==
    IF index[k].ident # "" /\ e.ident # ""
    THEN index[k].ident = e.ident
    ELSE k \in RowsOf(e)

\* C6 (as claimed): after a person's turn the declarations counted for them
\* are the rows that belong to them by identifier where both sides carry one
\* and by name otherwise; with no such row the person gets no summary.
C6_IdentifierOverridesName ==
    \A p \in 1..Len(elus) : p < i =>
        LET e == elus[p]
            mine == {k \in 1..Len(index) : BelongsByIdentifier(k, e)}
        IN  IF mine = {} THEN e.hatvp_complete = None
            ELSE /\ e.hatvp_complete # None
                 /\ e.hatvp_complete.nb_declarations_hatvp = Cardinality(mine)

\* ------------------------------------------------------------------------
\* C7
\* ------------------------------------------------------------------------

SameKey(a, b) ==
    /\ normalize_name(strip(a.nom)) = normalize_name(strip(b.nom))
    /\ normalize_name(strip(a.prenom)) = normalize_name(strip(b.prenom))

\* C7 (as claimed): when two persons of the list have the same name key and
\* neither carries an identifier, a summary built from the rows of that name
\* is stored for one of them only if the run has reported the ambiguity.
C7_AmbiguityReported ==
    \A p, q \in 1..Len(elus) :
        ( /\ p # q
          /\ SameKey(elus[p], elus[q])
          /\ elus[p].ident = "" /\ elus[q].ident = ""
          /\ RowsOf(elus[p]) # {}
          /\ elus[p].hatvp_complete # None )
        => "correspondance_ambigue" \in log

\* ------------------------------------------------------------------------
\* C8 and C9
\* ------------------------------------------------------------------------

ConjointFields == {"nom", "prenom", "profession", "employeur", "secteur_activite"}

\* The family data a merged declaration carried.
FamilleOf(d) == Body(d.url.body)

\* C8 (as claimed): in a profile merged from two declarations, every spouse
\* field and the family situation that the first merged declaration set
\* non-empty is still non-empty.
C8_NonDestructiveSingletons ==
    \A e \in Persons :
        (Consolidated(e) /\ Len(details[e.id].declarations) = 2) =>
            LET first == FamilleOf(details[e.id].declarations[1])
                merged == details[e.id].famille
            IN  /\ first.situation_familiale # "" => merged.situation_familiale # ""
                /\ \A f \in ConjointFields :
                      first.conjoint[f] # "" => merged.conjoint[f] # ""

\* C9 (as claimed): in a profile merged from two declarations filed on
\* different dates that both carry a non-empty spouse field or family
\* situation, the profile holds the value of the one filed later.
C9_LaterFiledSingletonWins ==
    \A e \in Persons :
        (Consolidated(e) /\ Len(details[e.id].declarations) = 2) =>
            LET d1 == details[e.id].declarations[1]
                d2 == details[e.id].declarations[2]
                t1 == parse_date_text(d1.date_depot)
                t2 == parse_date_text(d2.date_depot)
                later == IF dt_less(t1, t2) THEN FamilleOf(d2) ELSE FamilleOf(d1)
                merged == details[e.id].famille
            IN  t1 # t2 =>
                  /\ (FamilleOf(d1).situation_familiale # ""
                        /\ FamilleOf(d2).situation_familiale # "")
                     => merged.situation_familiale = later.situation_familiale
                  /\ \A f \in ConjointFields :
                        (FamilleOf(d1).conjoint[f] # "" /\ FamilleOf(d2).conjoint[f] # "")
                        => merged.conjoint[f] = later.conjoint[f]

\* ------------------------------------------------------------------------
\* C10
\* ------------------------------------------------------------------------

ResumeNumbers ==
    {"nb_instruments_financiers", "nb_participations_societes",
     "nb_biens_immobiliers", "nb_prets_bancaires", "nb_autres_biens",
     "nb_revenus_activites", "nb_mandats_electifs", "nb_fonctions_dirigeantes",
     "patrimoine_brut_euro", "patrimoine_net_euro", "valeur_instruments_euro",
     "valeur_participations_euro", "valeur_immobilier_euro",
     "valeur_autres_biens_euro", "total_dettes_euro", "revenus_annuels_euro",
     "nb_declarations_hatvp", "nb_enfants", "hatvp_scraped_at"}

\* Every field of the summary before that is non-empty (a number other than
\* zero, a true flag) is non-empty in the summary after.
KeepsNonEmpty(before, after) ==
    before # None =>
        /\ after # None
        /\ \A f \in ResumeNumbers : before[f] # 0 => after[f] # 0
        /\ before.a_conjoint => after.a_conjoint

\* C10 (as claimed): no write of elus.json empties a field of a summary it
\* already stored, over any sequence of runs.
C10_MonotonicUpdate ==
    [][\A p \in 1..Len(elus_file) :
          /\ p <= Len(elus_file')
          /\ KeepsNonEmpty(elus_file[p].hatvp_complete, elus_file'[p].hatvp_complete)]_vars

\* ------------------------------------------------------------------------
\* C11
\* ------------------------------------------------------------------------

RecordKinds ==
    {"instruments_financiers", "participations_financieres", "biens_immobiliers",
     "prets_bancaires", "autres_biens", "revenus_activites", "mandats_electifs",
     "fonctions_dirigeantes"}

\* The records of one kind in the documents of a list of merged declarations,
\* one document after the other.
RECURSIVE RecordsOfDocuments(_, _)
RecordsOfDocuments(decls, kind) ==
    IF decls = <<>> THEN <<>>
    ELSE Body(Head(decls).url.body)[kind] \o RecordsOfDocuments(Tail(decls), kind)

\* C11: for every record kind, the list a written profile holds is the
\* concatenation of that kind's lists in the documents of the declarations
\* merged into it, the patrimony declaration before the interests one, every
\* merged declaration being a well-formed document; nothing is deduplicated,
\* dropped or added.
C11_ConcatenationWithoutDedup ==
    \A e \in Persons :
        Consolidated(e) =>
            LET decls == details[e.id].declarations IN
            /\ \A k \in 1..Len(decls) : Body(decls[k].url.body).wellformed
            /\ \A j, k \in 1..Len(decls) :
                  (decls[j].type \in PatrimonyGroup /\ decls[k].type \in InterestsGroup)
                      => j < k
            /\ \A kind \in RecordKinds :
                  details[e.id][kind] = RecordsOfDocuments(decls, kind)

\* A profile merged from a patrimony and an interests declaration that state
\* the same income: the record is held twice.
C11_Witness ==
    \E e \in Persons :
        /\ Consolidated(e)
        /\ Len(details[e.id].declarations) = 2
        /\ details[e.id].declarations[1].type \in PatrimonyGroup
        /\ details[e.id].declarations[2].type \in InterestsGroup
        /\ details[e.id].revenus_activites =
               <<REVENU_60000, REVENU_60000, REVENU_unknown>>

\* ------------------------------------------------------------------------
\* C12
\* ------------------------------------------------------------------------

\* The total of the records of one list of the profile that state the amount
\* v in that field; every list of the profiles above states one amount.
Stated(kind, field, v) ==
    v * Cardinality({k \in 1..Len(profile[kind]) : profile[kind][k][field] = <<v>>})

GrossStated ==
    Stated("instruments_financiers", "valeur_euro", 5000)
    + Stated("participations_financieres", "valeur_euro", 20000)
    + Stated("biens_immobiliers", "valeur_euro", 300000)
    + Stated("autres_biens", "valeur_euro", 7000)

DebtStated == Stated("prets_bancaires", "capital_restant_du_euro", 100000)

IncomeStated == Stated("revenus_activites", "montant_annuel_euro", 60000)

\* One house worth 300000, one loan with 100000 outstanding, nothing else of
\* value.
HouseAndLoan ==
    /\ profile # None
    /\ profile.biens_immobiliers = <<RE_300000>>
    /\ profile.prets_bancaires = <<PRET_100000>>
    /\ profile.instruments_financiers = <<>>
    /\ profile.participations_financieres = <<>>
    /\ profile.autres_biens = <<>>

\* C12: the summary's gross assets are the sum of the values of the financial
\* instruments, participations, real estate and other valuables (vehicles
\* among them), its total debt the sum of the loans' outstanding capital, its
\* net worth the gross assets minus the debt, its annual income the sum of the
\* income records' annual amount; a house worth 300000 and a loan of 100000
\* give gross assets 300000 and net worth 200000.
C12_Aggregation ==
    summary # None =>
        /\ summary.patrimoine_brut_euro = GrossStated
        /\ summary.total_dettes_euro = DebtStated
        /\ summary.patrimoine_net_euro = GrossStated - DebtStated
        /\ summary.revenus_annuels_euro = IncomeStated
        /\ HouseAndLoan =>
              /\ summary.patrimoine_brut_euro = 300000
              /\ summary.patrimoine_net_euro = 200000

\* The summary of the house and the loan.
C12_Witness ==
    /\ summary # None
    /\ profile.biens_immobiliers = <<RE_300000>>
    /\ profile.prets_bancaires = <<PRET_100000>>
    /\ Len(profile.instruments_financiers) + Len(profile.participations_financieres)
         + Len(profile.autres_biens) = 0
    /\ summary.patrimoine_brut_euro = 300000
    /\ summary.patrimoine_net_euro = 200000

\* ------------------------------------------------------------------------
\* C13
\* ------------------------------------------------------------------------

\* The field of each list that states the amount build_resume_complet sums.
AmountField(kind) ==
    CASE kind = "prets_bancaires" -> "capital_restant_du_euro"
      [] kind = "revenus_activites" -> "montant_annuel_euro"
      [] OTHER -> "valeur_euro"

SummedKinds ==
    {"instruments_financiers", "participations_financieres", "biens_immobiliers",
     "autres_biens", "prets_bancaires", "revenus_activites"}

CountField(kind) ==
    CASE kind = "instruments_financiers" -> "nb_instruments_financiers"
      [] kind = "participations_financieres" -> "nb_participations_societes"
      [] kind = "biens_immobiliers" -> "nb_biens_immobiliers"
      [] kind = "prets_bancaires" -> "nb_prets_bancaires"
      [] kind = "autres_biens" -> "nb_autres_biens"
      [] kind = "revenus_activites" -> "nb_revenus_activites"
      [] kind = "mandats_electifs" -> "nb_mandats_electifs"
      [] OTHER -> "nb_fonctions_dirigeantes"

\* The profile without its records of absent amount.
WithoutAbsent(p) ==
    [kind \in DOMAIN p |->
        IF kind \in SummedKinds
        THEN SelectSeq(p[kind], LAMBDA r : r[AmountField(kind)] # None)
        ELSE p[kind]]

SumFields ==
    {"patrimoine_brut_euro", "patrimoine_net_euro", "valeur_instruments_euro",
     "valeur_participations_euro", "valeur_immobilier_euro",
     "valeur_autres_biens_euro", "total_dettes_euro", "revenus_annuels_euro"}

AbsentAmounts ==
    {<<kind, k>> \in SummedKinds \X (1..MaxRecords) :
        /\ k <= Len(profile[kind])
        /\ profile[kind][k][AmountField(kind)] = None}

\* C13: every sum of the summary is what it would be without the records of
\* absent amount, and every per-kind count is the length of the profile's
\* list of that kind, the records of absent amount included.
C13_AbsentAmounts ==
    summary # None =>
        /\ \A f \in SumFields :
              summary[f] = build_resume_complet(WithoutAbsent(profile))[f]
        /\ \A kind \in RecordKinds :
              summary[CountField(kind)] = Len(profile[kind])

\* The summary of a profile with two records of absent amount and one stated.
C13_Witness ==
    /\ summary # None
    /\ Cardinality(AbsentAmounts) = 2
    /\ summary.patrimoine_brut_euro > 0
    /\ summary.nb_instruments_financiers + summary.nb_participations_societes
         + summary.nb_biens_immobiliers + summary.nb_autres_biens
         + summary.nb_prets_bancaires + summary.nb_revenus_activites = 3

\* ------------------------------------------------------------------------
\* C14
\* ------------------------------------------------------------------------

\* The rows selected for a person, patrimony first, that name a file.
SelectedRows(e) ==
    LET rows == find_declarations_for_elu(index, strip(e.prenom), strip(e.nom))
    IN  SelectSeq(<<select_dsp(rows), select_di(rows)>>,
                  LAMBDA r : r # None /\ get_xml_url(r) # NoFile)

WellFormed(r) == Body(get_xml_url(r).body).wellformed

RECURSIVE RecordsOfRows(_, _)
RecordsOfRows(rows, kind) ==
    IF rows = <<>> THEN <<>>
    ELSE Body(get_xml_url(Head(rows)).body)[kind] \o RecordsOfRows(Tail(rows), kind)

\* C14: in a run that writes and in which no download has failed, the step
\* that processes a person reports every selected file that is not
\* well-formed as invalid and merges nothing from it, merges every other
\* selected declaration of the person, and leaves the batch in its loop, at
\* the following person.
C14_MalformedDocument ==
    [][(/\ pc = "loop"
        /\ i' = i + 1
        /\ ~args.dry_run
        /\ "telechargement_echoue" \notin log')
       =>
        LET e == elus[i]
            sel == SelectedRows(e)
            good == SelectSeq(sel, WellFormed)
        IN  /\ pc' = "loop"
            /\ (\E k \in 1..Len(sel) : ~WellFormed(sel[k])) => "xml_invalide" \in log'
            /\ sel # <<>> =>
                  /\ details'[e.id] # None
                  /\ [k \in 1..Len(details'[e.id].declarations) |->
                         details'[e.id].declarations[k].url]
                       = [k \in 1..Len(good) |-> get_xml_url(good[k])]
                  /\ \A kind \in RecordKinds :
                         details'[e.id][kind] = RecordsOfRows(good, kind)
      ]_vars

\* Two homonyms whose selected interests file is not well-formed: both have
\* been processed, the failure was reported, and the profile of each holds
\* the patrimony declaration alone.
C14_Witness ==
    /\ pc = "loop"
    /\ i = 3
    /\ "xml_invalide" \in log
    /\ "telechargement_echoue" \notin log
    /\ \A e \in Persons :
          /\ Len(SelectedRows(e)) = 2
          /\ ~WellFormed(SelectedRows(e)[2])
          /\ Consolidated(e)
          /\ Len(details[e.id].declarations) = 1
          /\ details[e.id].declarations[1].type \in PatrimonyGroup
          /\ details[e.id].instruments_financiers # <<>>

\* ------------------------------------------------------------------------
\* C15
\* ------------------------------------------------------------------------

\* C15: a step that consolidates a person again, over the same index and
\* from the same documents as the profile already written, writes a profile
\* equal to it in every field.
C15_IdempotentConsolidation ==
    [][\A id \in ElusIds :
          (/\ details[id] # None
           /\ details'[id] # None
           /\ details'[id].declarations = details[id].declarations)
          => details'[id] = details[id]
      ]_vars

\* ------------------------------------------------------------------------
\* C16
\* ------------------------------------------------------------------------

\* The document was handed to the parsers and they returned a declaration.
Parsed == declaration # None /\ declaration.ok

\* The sections of the document with that tag.
SectionsTagged(tag) == SelectSeq(document.kids, LAMBDA e : e.tag = tag)

RecordType(tag) ==
    CASE tag = "instrumentsFinanciersDto" -> "instrument_financier"
      [] tag = "participationFinanciereDto" -> "participation_financiere"
      [] tag = "biensImmobiliersDto" -> "bien_immobilier"
      [] tag = "pretsBancairesDto" -> "pret_bancaire"
      [] tag = "autresBiensDto" -> "autre_bien"
      [] tag = "revenusDto" -> "revenu"
      [] tag = "activitesRemunerees" -> "activite_remuneree"
      [] tag = "mandatsElectifsDto" -> "mandat_electif"
      [] tag = "fonctionsDto" -> "fonction_dirigeante"
      [] OTHER -> "enfant"

ListOf(tag) ==
    CASE tag = "instrumentsFinanciersDto" -> "instruments_financiers"
      [] tag = "participationFinanciereDto" -> "participations_financieres"
      [] tag = "biensImmobiliersDto" -> "biens_immobiliers"
      [] tag = "pretsBancairesDto" -> "prets_bancaires"
      [] tag = "autresBiensDto" -> "autres_biens"
      [] tag = "revenusDto" -> "revenus_activites"
      [] tag = "activitesRemunerees" -> "revenus_activites"
      [] tag = "mandatsElectifsDto" -> "mandats_electifs"
      [] OTHER -> "fonctions_dirigeantes"

\* The records the declaration holds of the section with that tag.
RecordsFrom(tag) ==
    IF tag = "enfantsDto" THEN declaration.famille.enfants
    ELSE SelectSeq(declaration[ListOf(tag)], LAMBDA r : r.type = RecordType(tag))

\* The section carries the marker <neant> with the text true, in any case
\* and with any blanks around it.
MarkedNone(section) ==
    \E k \in 1..Len(section.kids) :
        /\ section.kids[k].tag = "neant"
        /\ lower(strip(section.kids[k].text)) = <<"t", "r", "u", "e">>

\* Some item element below the section has a child that states a value.
HoldsStatedItem(section) ==
    \E it \in Range(descendants(section)) :
        /\ it.tag = "items"
        /\ \E k \in 1..Len(it.kids) :
              /\ it.kids[k].tag # "items"
              /\ strip(it.kids[k].text) \notin {<<>>, Unpublished, <<"n", "c">>}

\* C16: the declaration holds no record of a section that the document does
\* not have, that has no child element, or whose marker neant is true, the
\* items below such a section being empty or not.
C16_EmptySectionRule ==
    Parsed =>
        \A tag \in SectionTags :
            LET secs == SectionsTagged(tag) IN
            (\/ secs = <<>>
             \/ secs[1].kids = <<>>
             \/ MarkedNone(secs[1]))
            => RecordsFrom(tag) = <<>>

\* The parsed declaration of a document whose instruments section is marked
\* neant and holds, nested under it, an item with a value and a placeholder.
C16_Witness ==
    /\ Parsed
    /\ SectionsTagged("instrumentsFinanciersDto") # <<>>
    /\ LET section == SectionsTagged("instrumentsFinanciersDto")[1]
       IN  /\ MarkedNone(section)
           /\ HoldsStatedItem(section)
           /\ Placeholder \in Range(descendants(section))
    /\ declaration.instruments_financiers = <<>>

\* ------------------------------------------------------------------------
\* C17
\* ------------------------------------------------------------------------

\* The attributes of a record that carry data: all but its type tag and its
\* flags, which are never empty.
Meaningful(record) == DOMAIN record \ {"type", "en_cours", "remuneree", "a_charge"}

\* Some text attribute of the record is not empty or some amount not absent.
StatesSomething(record) == \E f \in Meaningful(record) : record[f] # <<>>

\* C17: every record of every list of a parsed declaration, the children of
\* the family block included, has a text attribute that is not empty or an
\* amount that is not absent.
C17_NoPhantomRecord ==
    Parsed =>
        \A tag \in SectionTags :
            \A r \in Range(RecordsFrom(tag)) : StatesSomething(r)

\* A declaration parsed from a document whose item holds a blank field next
\* to a stated one: the record is emitted with the stated attribute alone.
C17_Witness ==
    /\ Parsed
    /\ \E tag \in SectionTags :
          /\ Len(RecordsFrom(tag)) = 1
          /\ Cardinality({f \in Meaningful(RecordsFrom(tag)[1]) :
                             RecordsFrom(tag)[1][f] # <<>>}) = 1
          /\ \E it \in Range(descendants(document)) :
                /\ it.tag = "items"
                /\ \E k \in 1..Len(it.kids) : it.kids[k].text = <<" ">>

\* ------------------------------------------------------------------------
\* C18
\* ------------------------------------------------------------------------

\* The record a section's parser builds of one item.
RecordOf(tag, item) ==
    CASE tag = "instrumentsFinanciersDto" -> instrument_of(item)
      [] tag = "participationFinanciereDto" -> participation_of(item)
      [] tag = "biensImmobiliersDto" -> bien_immobilier_of(item)
      [] tag = "pretsBancairesDto" -> pret_of(item)
      [] tag = "autresBiensDto" -> autre_bien_of(item)
      [] tag = "revenusDto" -> revenu_of(item)
      [] tag = "activitesRemunerees" -> activite_of(item)
      [] tag = "mandatsElectifsDto" -> mandat_of(item)
      [] tag = "fonctionsDto" -> fonction_of(item)
      [] OTHER -> enfant_of(item)

\* The sections of the document that are not empty: present, not marked
\* neant.
OpenSections ==
    {<<tag, SectionsTagged(tag)[1]>> : tag \in
        {t \in SectionTags :
            SectionsTagged(t) # <<>> /\ ~MarkedNone(SectionsTagged(t)[1])}}

\* C18: of every item the parser enumerates in a section that is not empty,
\* a record is emitted unless every resolved attribute of the item is empty
\* or absent; a loan of which only the lender is known, or an instrument of
\* which only the ISIN is known, yields a record.
C18_NoSilentDrop ==
    Parsed =>
        \A ts \in OpenSections :
            \A item \in Range(section_items(ts[2])) :
                StatesSomething(RecordOf(ts[1], item))
                    => RecordOf(ts[1], item) \in Range(RecordsFrom(ts[1]))

\* ------------------------------------------------------------------------
\* C19
\* ------------------------------------------------------------------------

\* An output attribute of a record, whether it is an amount, and the ordered
\* list of the field names accepted for it.
Attr(attribute, monetary, names) ==
    [attribute |-> attribute, monetary |-> monetary, names |-> names]

\* The text and amount attributes of the records of each section.
AcceptedNames(tag) ==
    CASE tag = "instrumentsFinanciersDto" ->
           {Attr("nature", FALSE, <<<<"nature", "label">>,
                          <<"typeInstrument", "label">>, <<"nature", "id">>,
                          <<"typeInstrument", "id">>>>),
            Attr("nature_code", FALSE, <<<<"nature", "id">>,
                          <<"typeInstrument", "id">>>>),
            Attr("description", FALSE, <<<<"description">>,
                          <<"denomination">>, <<"libelle">>,
                          <<"nomEmetteur">>>>),
            Attr("valeur_euro", TRUE, <<<<"valeur">>, <<"valeurEstimee">>,
                          <<"montant">>, <<"valeurTotale">>>>),
            Attr("mode_detention", FALSE, <<<<"modeDetention", "label">>,
                          <<"modeDetention", "id">>>>),
            Attr("nombre_titres", FALSE, <<<<"nombreTitres">>,
                          <<"nbTitres">>>>),
            Attr("valeur_unitaire_euro", TRUE, <<<<"valeurUnitaire">>>>),
            Attr("isin", FALSE, <<<<"codeISIN">>, <<"isin">>>>),
            Attr("devise", FALSE, <<<<"devise">>, <<"devise", "id">>>>),
            Attr("date_acquisition", FALSE, <<<<"dateAcquisition">>,
                          <<"dateOuverture">>>>),
            Attr("etablissement", FALSE, <<<<"etablissement">>,
                          <<"nomEtablissement">>>>),
            Attr("commentaire", FALSE, <<<<"commentaire">>,
                          <<"observation">>>>)}
      [] tag = "participationFinanciereDto" ->
           {Attr("nom_societe", FALSE, <<<<"nomSociete">>,
                          <<"denomination">>, <<"raisonSociale">>>>),
            Attr("forme_juridique", FALSE, <<<<"formeJuridique">>,
                          <<"typeStructure", "label">>>>),
            Attr("nb_parts", FALSE, <<<<"nbParts">>, <<"nombreParts">>>>),
            Attr("valeur_euro", TRUE, <<<<"valeurParts">>, <<"valeur">>,
                          <<"montant">>, <<"valeurEstimee">>>>),
            Attr("pourcentage_detention", FALSE, <<<<"pourcentage">>,
                          <<"tauxDetention">>>>),
            Attr("mode_detention", FALSE, <<<<"modeDetention", "label">>,
                          <<"modeDetention", "id">>>>),
            Attr("objet_social", FALSE, <<<<"objetSocial">>, <<"activite">>,
                          <<"secteurActivite">>>>),
            Attr("adresse", FALSE, <<<<"adresse">>, <<"siege">>>>),
            Attr("siren", FALSE, <<<<"siren">>, <<"numeroSIREN">>>>),
            Attr("date_acquisition", FALSE, <<<<"dateAcquisition">>,
                          <<"dateEntree">>>>),
            Attr("commentaire", FALSE, <<<<"commentaire">>,
                          <<"observation">>>>)}
      [] tag = "biensImmobiliersDto" ->
           {Attr("nature", FALSE, <<<<"nature", "label">>,
                          <<"nature", "id">>, <<"typeBien", "label">>>>),
            Attr("nature_code", FALSE, <<<<"nature", "id">>,
                          <<"typeBien", "id">>>>),
            Attr("adresse", FALSE, <<<<"adresse">>, <<"localisation">>,
                          <<"commune">>>>),
            Attr("surface_m2", FALSE, <<<<"surface">>, <<"superficieM2">>>>),
            Attr("valeur_euro", TRUE, <<<<"valeur">>, <<"valeurEstimee">>,
                          <<"montant">>>>),
            Attr("mode_detention", FALSE, <<<<"modeDetention", "label">>,
                          <<"modeDetention", "id">>>>),
            Attr("date_acquisition", FALSE, <<<<"dateAcquisition">>,
                          <<"dateAchat">>>>),
            Attr("mode_acquisition", FALSE, <<<<"modeAcquisition", "label">>,
                          <<"modeAcquisition", "id">>, <<"origine">>>>),
            Attr("usage", FALSE, <<<<"usage">>, <<"affectation">>>>),
            Attr("commentaire", FALSE, <<<<"commentaire">>,
                          <<"observation">>>>)}
      [] tag = "pretsBancairesDto" ->
           {Attr("nature", FALSE, <<<<"nature", "label">>,
                          <<"nature", "id">>, <<"typeCredit", "label">>>>),
            Attr("etablissement", FALSE, <<<<"etablissement">>,
                          <<"organisme">>, <<"preteur">>>>),
            Attr("montant_emprunte_euro", TRUE, <<<<"montant">>,
                          <<"montantEmprunte">>, <<"capitalEmprunte">>>>),
            Attr("capital_restant_du_euro", TRUE, <<<<"capitalRestantDu">>,
                          <<"montantRestant">>, <<"solde">>>>),
            Attr("date_souscription", FALSE, <<<<"dateSouscription">>,
                          <<"dateEmprunt">>, <<"dateOuverture">>>>),
            Attr("duree_annees", FALSE, <<<<"duree">>, <<"dureeAnnees">>>>),
            Attr("taux_interet", FALSE, <<<<"tauxInteret">>, <<"taux">>>>),
            Attr("objet", FALSE, <<<<"objet">>, <<"finalite">>, <<"motif">>>>),
            Attr("commentaire", FALSE, <<<<"commentaire">>,
                          <<"observation">>>>)}
      [] tag = "autresBiensDto" ->
           {Attr("nature", FALSE, <<<<"nature", "label">>,
                          <<"nature", "id">>, <<"categorie", "label">>>>),
            Attr("description", FALSE, <<<<"description">>,
                          <<"designation">>, <<"libelle">>>>),
            Attr("valeur_euro", TRUE, <<<<"valeur">>, <<"valeurEstimee">>,
                          <<"montant">>>>),
            Attr("date_acquisition", FALSE, <<<<"dateAcquisition">>,
                          <<"dateAchat">>>>),
            Attr("commentaire", FALSE, <<<<"commentaire">>,
                          <<"observation">>>>)}
      [] tag = "revenusDto" ->
           {Attr("nature", FALSE, <<<<"nature", "label">>,
                          <<"nature", "id">>, <<"typeRevenu", "label">>>>),
            Attr("employeur", FALSE, <<<<"employeur">>, <<"source">>,
                          <<"organisme">>>>),
            Attr("montant_annuel_euro", TRUE, <<<<"montant">>,
                          <<"montantAnnuel">>, <<"revenusAnnuels">>>>),
            Attr("activite", FALSE, <<<<"activite">>, <<"fonction">>>>),
            Attr("date_debut", FALSE, <<<<"dateDebut">>, <<"depuis">>>>),
            Attr("date_fin", FALSE, <<<<"dateFin">>, <<"jusqua">>>>),
            Attr("commentaire", FALSE, <<<<"commentaire">>,
                          <<"observation">>>>)}
      [] tag = "activitesRemunerees" ->
           {Attr("nature", FALSE, <<<<"nature", "label">>,
                          <<"nature", "id">>, <<"typeActivite", "label">>>>),
            Attr("employeur", FALSE, <<<<"employeur">>, <<"nomEmployeur">>,
                          <<"organisme">>>>),
            Attr("fonction", FALSE, <<<<"fonction">>, <<"intitulePoste">>,
                          <<"activite">>>>),
            Attr("montant_annuel_euro", TRUE, <<<<"montant">>,
                          <<"remunerationAnnuelle">>, <<"revenuAnnuel">>>>),
            Attr("secteur_activite", FALSE, <<<<"secteurActivite">>,
                          <<"domaine">>>>),
            Attr("date_debut", FALSE, <<<<"dateDebut">>, <<"depuis">>>>),
            Attr("date_fin", FALSE, <<<<"dateFin">>, <<"jusqua">>>>),
            Attr("commentaire", FALSE, <<<<"commentaire">>,
                          <<"observation">>>>)}
      [] tag = "mandatsElectifsDto" ->
           {Attr("nature", FALSE, <<<<"nature", "label">>,
                          <<"nature", "id">>, <<"typeMandat", "label">>>>),
            Attr("fonction", FALSE, <<<<"fonction">>, <<"intituleFonction">>,
                          <<"qualite">>>>),
            Attr("collectivite", FALSE, <<<<"collectivite">>, <<"organe">>,
                          <<"assemblee">>>>),
            Attr("circonscription", FALSE, <<<<"circonscription">>,
                          <<"territoire">>, <<"zone">>>>),
            Attr("date_debut", FALSE, <<<<"dateDebut">>, <<"depuis">>>>),
            Attr("date_fin", FALSE, <<<<"dateFin">>, <<"jusqua">>>>),
            Attr("commentaire", FALSE, <<<<"commentaire">>,
                          <<"observation">>>>)}
      [] tag = "fonctionsDto" ->
           {Attr("fonction", FALSE, <<<<"fonction">>, <<"intituleFonction">>,
                          <<"titre">>>>),
            Attr("organisme", FALSE, <<<<"organisme">>, <<"nomOrganisme">>,
                          <<"structure">>>>),
            Attr("nature_organisme", FALSE, <<<<"natureOrganisme", "label">>,
                          <<"natureOrganisme", "id">>,
                          <<"typeStructure", "label">>>>),
            Attr("secteur_activite", FALSE, <<<<"secteurActivite">>,
                          <<"domaine">>, <<"objet">>>>),
            Attr("montant_annuel_euro", TRUE, <<<<"montant">>,
                          <<"remuneration">>>>),
            Attr("date_debut", FALSE, <<<<"dateDebut">>, <<"depuis">>>>),
            Attr("date_fin", FALSE, <<<<"dateFin">>, <<"jusqua">>>>),
            Attr("commentaire", FALSE, <<<<"commentaire">>,
                          <<"observation">>>>)}
      [] OTHER ->
           {Attr("date_naissance", FALSE, <<<<"dateNaissance">>,
                          <<"anneeNaissance">>>>)}

\* The stripped text of the field of an item, empty when the field is missing.
FieldText(item, name) ==
    LET found == walk(<<item>>, name)
    IN  IF found = <<>> THEN <<>> ELSE strip(found[1].text)

\* A field is empty when its stripped text is empty or is the placeholder of
\* the unpublished data.
EmptyField(item, name) == FieldText(item, name) \in {<<>>, Unpublished}

\* The text of the first field of the list that is not empty, the empty
\* text when there is none.
FirstStated(item, names) ==
    LET stated == {k \in 1..Len(names) : ~EmptyField(item, names[k])}
    IN  IF stated = {} THEN <<>>
        ELSE FieldText(item, names[CHOOSE k \in stated : \A j \in stated : k <= j])

\* The item elements of a section, at any depth.
ItemsOf(section) == Range(findall_deep(section, "items"))

\* The record resolves the attribute from the item by the ordered fallback:
\* a text attribute is the text of the first field that is not empty, an
\* amount attribute is the normalised amount of that text.
ResolvedFrom(record, item, a) ==
    record[a.attribute] =
        IF a.monetary THEN parse_montant(FirstStated(item, a.names))
        ELSE FirstStated(item, a.names)

\* The attribute is empty or absent only when every field of its list is
\* empty or missing.
EmptyOnlyWhenAllEmpty(record, item, a) ==
    record[a.attribute] = <<>>
        => \A k \in 1..Len(a.names) : EmptyField(item, a.names[k])

\* C19 as stated: every attribute of every emitted record takes the value of
\* the first field of its list that is not empty, and is empty or absent
\* only when every field of its list is empty or missing.
C19_OrderedFieldFallback_AsStated ==
    Parsed =>
        \A ts \in OpenSections :
            \A r \in Range(RecordsFrom(ts[1])) :
                \E item \in ItemsOf(ts[2]) :
                    \A a \in AcceptedNames(ts[1]) :
                        /\ ResolvedFrom(r, item, a)
                        /\ EmptyOnlyWhenAllEmpty(r, item, a)

\* C19, amended: every attribute of every emitted record is resolved from
\* the first field of its list that is not empty; a text attribute is empty
\* only when every field of its list is empty or missing, and an amount
\* attribute is the normalised amount of that first field, absent also when
\* that field holds no number.
C19_OrderedFieldFallback ==
    Parsed =>
        \A ts \in OpenSections :
            \A r \in Range(RecordsFrom(ts[1])) :
                \E item \in ItemsOf(ts[2]) :
                    \A a \in AcceptedNames(ts[1]) :
                        /\ ResolvedFrom(r, item, a)
                        /\ ~a.monetary => EmptyOnlyWhenAllEmpty(r, item, a)

\* A record one of whose attributes comes from the second name of its list,
\* the field of the first name being blank or unpublished.
C19_Witness ==
    /\ Parsed
    /\ \E ts \in OpenSections :
          \E r \in Range(RecordsFrom(ts[1])) :
              \E item \in ItemsOf(ts[2]), a \in AcceptedNames(ts[1]) :
                  /\ \A b \in AcceptedNames(ts[1]) : ResolvedFrom(r, item, b)
                  /\ walk(<<item>>, a.names[1]) # <<>>
                  /\ EmptyField(item, a.names[1])
                  /\ Len(a.names) >= 2
                  /\ ~EmptyField(item, a.names[2])
                  /\ r[a.attribute] # <<>>

\* ------------------------------------------------------------------------
\* C20
\* ------------------------------------------------------------------------

\* The item elements of the section under the nested interpretation: the
\* item elements that are children of an item element.
NestedItems(section) == children_of_all(findall_deep(section, "items"), "items")

\* The item has content: a field of its own with a text that is not blank.
HasContent(item) ==
    \E k \in 1..Len(item.kids) :
        item.kids[k].tag # "items" /\ strip(item.kids[k].text) # <<>>

\* The final test of the section's parser accepts the record.
Kept(tag, record) ==
    CASE tag = "instrumentsFinanciersDto" -> keep_instrument(record)
      [] tag = "participationFinanciereDto" -> keep_participation(record)
      [] tag = "biensImmobiliersDto" -> keep_bien_immobilier(record)
      [] tag = "pretsBancairesDto" -> keep_pret(record)
      [] tag = "autresBiensDto" -> keep_autre_bien(record)
      [] tag = "revenusDto" -> keep_revenu(record)
      [] tag = "activitesRemunerees" -> keep_activite(record)
      [] tag = "mandatsElectifsDto" -> keep_mandat(record)
      [] tag = "fonctionsDto" -> keep_fonction(record)
      [] OTHER -> keep_enfant(record)

\* C20: when a section that is not empty has item elements at the nested
\* level, all of them without content, while an item element of the other
\* level has content, the items with content are extracted: each of them
\* whose record the parser's final test accepts is in the list.
C20_ItemNesting ==
    Parsed =>
        \A ts \in OpenSections :
            (/\ NestedItems(ts[2]) # <<>>
             /\ \A nested \in Range(NestedItems(ts[2])) : ~HasContent(nested))
            => \A item \in ItemsOf(ts[2]) :
                   (HasContent(item) /\ Kept(ts[1], RecordOf(ts[1], item)))
                       => RecordOf(ts[1], item) \in Range(RecordsFrom(ts[1]))

\* ------------------------------------------------------------------------
\* C21
\* ------------------------------------------------------------------------

\* The text without its spaces and non-breaking spaces.
Unspaced(text) == SelectSeq(text, LAMBDA c : c \notin {" ", "nbsp"})

\* The text writes the number zero: zeros around at most one decimal comma
\* or point, spaces apart.
WritesZero(text) ==
    LET t == Unspaced(text)
    IN  /\ \E k \in 1..Len(t) : t[k] = "0"
        /\ \A k \in 1..Len(t) : t[k] \in {"0", ",", "."}
        /\ Cardinality({k \in 1..Len(t) : t[k] \in {",", "."}}) <= 1

\* C21: the normalizer returns absent for every text that writes zero, such
\* as "0", "0,00" and "0.0".
C21_ZeroIsAbsent ==
    (returned # <<>> /\ WritesZero(argument)) => returned[1] = None

\* ------------------------------------------------------------------------
\* C22
\* ------------------------------------------------------------------------

\* The text without the currency marker that ends it.
Unmarked(text) == SubSeq(text, 1, Len(text) - 1)

\* The text is an amount other than zero followed by a currency marker.
AmountWithCurrency(text) ==
    /\ text # <<>>
    /\ text[Len(text)] = "EUR"
    /\ parse_montant(Unmarked(text)) # None
    /\ ~WritesZero(Unmarked(text))

\* C22: a text made of a valid amount followed by a currency marker
\* normalizes to the amount, the marker being stripped before parsing.
C22_NormalizerTolerance ==
    (returned # <<>> /\ AmountWithCurrency(argument))
        => returned[1] = parse_montant(Unmarked(argument))

\* ------------------------------------------------------------------------
\* C23
\* ------------------------------------------------------------------------

\* C23: two names that differ only by case, accents, hyphen versus space or
\* runs of blanks and hyphens, leading and trailing ones included, have the
\* same key, and the key of a key is the key itself.  (SameName tells, from
\* the words of the two names, that they differ by nothing else; returned
\* holds the keys of the two names, then the key of the first key.)
C23_NameNormalizer ==
    /\ (Len(returned) >= 2 /\ SameName(argument[1], argument[2]))
           => returned[1] = returned[2]
    /\ Len(returned) = 3 => returned[3] = returned[1]

\* "Yaël Braun-Pivet" and "yael   braun pivet", which differ by case, accent,
\* hyphen and a run of spaces, have got the one key "yael braun pivet", and
\* that key has been normalized again.
C23_Witness ==
    /\ Len(returned) = 3
    /\ argument = <<YaelBraunPivet, yael_braun_pivet>>
    /\ argument[1] # argument[2]
    /\ SameName(argument[1], argument[2])
    /\ returned[1] = <<"y", "a", "e", "l", " ", "b", "r", "a", "u", "n", " ",
                       "p", "i", "v", "e", "t">>
    /\ returned[2] = returned[1]

\* ------------------------------------------------------------------------
\* C24
\* ------------------------------------------------------------------------

\* C24: after the declarations of a person have been consolidated, each
\* parsed declaration holds the data it was parsed with, the spouse and the
\* children of its family block included.
C24_DeclarationsImmutable ==
    \A k \in 1..Len(parsed) : parsed[k] = parse_declaration_xml(parsed[k].url_xml)

\* ------------------------------------------------------------------------
\* C25
\* ------------------------------------------------------------------------

\* C25: no step of a run started with --dry-run creates or modifies the
\* cached index, a cached XML document, a details file, elus.json or the
\* progress file.
C25_DryRunWritesNothing ==
    [][args.dry_run =>
          UNCHANGED <<index_cache, xml_cache, details, elus_file, progress_file>>]_vars

\* ------------------------------------------------------------------------
\* C26
\* ------------------------------------------------------------------------

\* The loop handles its next person in this step.
HandlesPerson == pc = "loop" /\ i <= Len(elus) /\ i' = i + 1

\* C26: without --force, the batch skips a person who has stored data: the
\* person is counted as skipped, nothing is fetched and nothing changes.
C26_DuplicateAvoidance ==
    [][(HandlesPerson /\ elus[i].hatvp_complete # None /\ ~args.force)
          => /\ counters'.skipped = counters.skipped + 1
             /\ UNCHANGED <<elus, xml_cache, details, parsed>>]_vars

\* ------------------------------------------------------------------------
\* C27
\* ------------------------------------------------------------------------

\* The priority of a source.
Priority(source) ==
    IF source = "AN" THEN 1 ELSE IF source = "Senat" THEN 2 ELSE 3

\* The sources asked for a person were asked in the order Assemblee, Senat,
\* HATVP.
TriedInPriorityOrder ==
    \A j \in 1..Len(tried) : \A k \in (j + 1)..Len(tried) :
        Priority(tried[j]) < Priority(tried[k])

\* The step that ends a run which is not a dry run leaves the placeholder
\* path in elus.json for each person who had no photo and for whom the run
\* found none (lines 385-386 have marked that person in memory).
PlaceholderSaved ==
    (pc = "loop" /\ pc' = "done" /\ ~args.dry_run)
        => \A k \in 1..Len(elus) :
               (elus_file[k].photo = <<>> /\ elus[k].photo = PlaceholderPath)
                   => elus_file'[k].photo = PlaceholderPath

\* C27: scrape-photos asks the sources in the order Assemblee, Senat, HATVP,
\* and at the end of a run that is not a dry run the photo of a person without
\* one, for whom no source gave a valid image, is the placeholder path in the
\* saved elus.json.
C27_PhotoPlaceholder == []TriedInPriorityOrder /\ [][PlaceholderSaved]_vars

\* ------------------------------------------------------------------------
\* C28
\* ------------------------------------------------------------------------

\* C28: once the loop has handled every person of the list, each has been
\* counted once, as skipped, not found, updated or error, and as many are
\* processed as updated.
C28_BatchAccounting ==
    (pc \in {"loop", "done", "exit", "crashed"} /\ i > Len(elus))
        => /\ counters.skipped + counters.not_found + counters.updated
              + counters.errors = Len(elus)
           /\ counters.processed = counters.updated

\* ------------------------------------------------------------------------
\* C29
\* ------------------------------------------------------------------------

\* The person but for the summary.
WithoutSummary(elu) == [elu EXCEPT !.hatvp_complete = None]

\* C29: every write of elus.json by a run that is not a dry run keeps every
\* person the file held, with every field but the summary, also under
\* --limit.
C29_NoPersonLost ==
    [][(~args.dry_run /\ elus_file' # elus_file)
          => \A k \in 1..Len(elus_file) :
                 \E j \in 1..Len(elus_file') :
                     WithoutSummary(elus_file'[j]) = WithoutSummary(elus_file[k])]_vars

\* ------------------------------------------------------------------------
\* C30
\* ------------------------------------------------------------------------

\* The counts of records and the totals of a summary.
RecordCounts ==
    {"nb_instruments_financiers", "nb_participations_societes",
     "nb_biens_immobiliers", "nb_prets_bancaires", "nb_autres_biens",
     "nb_revenus_activites", "nb_mandats_electifs", "nb_fonctions_dirigeantes",
     "nb_enfants"}

Totals ==
    {"patrimoine_brut_euro", "patrimoine_net_euro", "valeur_instruments_euro",
     "valeur_participations_euro", "valeur_immobilier_euro",
     "valeur_autres_biens_euro", "total_dettes_euro", "revenus_annuels_euro"}

\* The index rows under the person's name.
RowsOfName(elu) ==
    {k \in 1..Len(index) :
        SameName(index[k].nom, elu.nom) /\ SameName(index[k].prenom, elu.prenom)}

\* This step handles a person who has index rows and is not skipped, and
\* none of whose selected declarations is downloaded and parsed, in a run
\* that writes.
TotalFetchFailure ==
    /\ HandlesPerson
    /\ RowsOfName(elus[i]) # {}
    /\ ~has_hatvp_data(elus[i], args.skip_existing, today)
    /\ ~args.dry_run
    /\ parsed' = <<>>

\* Every file the iteration writes can be written: the cached XML, the
\* details file and, when an incremental save is due, elus.json and the
\* progress file.
WritesSucceed ==
    /\ "xmls" \notin unwritable
    /\ "details" \notin unwritable
    /\ (counters.processed + 1) % SAVE_INTERVAL = 0 => unwritable = {}

\* What the claim says of such a step but for the numbers of the summary: a
\* result with every list empty is returned and stored, and the person is
\* counted as updated, not as not found or error.
CountedAsUpdated ==
    /\ counters'.updated = counters.updated + 1
    /\ counters'.not_found = counters.not_found
    /\ counters'.errors = counters.errors
    /\ details'[elus[i].id] # None
    /\ \A kind \in RecordKinds : details'[elus[i].id][kind] = <<>>
    /\ elus'[i].hatvp_complete # None

\* The summary now in memory has every total and every count of records
\* equal to zero, and counts as declarations the index rows found under the
\* person's name.
ZeroSummaryStored ==
    /\ elus'[i].hatvp_complete # None
    /\ \A f \in Totals \cup RecordCounts : elus'[i].hatvp_complete[f] = 0
    /\ elus'[i].hatvp_complete.nb_declarations_hatvp
           = Cardinality(RowsOfName(elus[i]))

\* C30 as stated: the person is counted as updated and the summary that
\* replaces the stored one has every total and every count equal to zero.
C30_TotalFetchFailure_AsStated ==
    [][TotalFetchFailure
          => /\ CountedAsUpdated
             /\ \A f \in Totals \cup RecordCounts \cup {"nb_declarations_hatvp"} :
                    elus'[i].hatvp_complete[f] = 0]_vars

\* C30, amended: when every file of the iteration can be written, the person
\* is counted as updated and the summary that replaces the stored one has
\* every total and every count of records equal to zero, and counts as
\* declarations the index rows found under the person's name; when only the
\* details file cannot be written, that summary is stored in memory all the
\* same but the person is counted as an error and no details file is written.
C30_TotalFetchFailure ==
    [][/\ (TotalFetchFailure /\ WritesSucceed)
              => (CountedAsUpdated /\ ZeroSummaryStored)
       /\ (TotalFetchFailure /\ "details" \in unwritable /\ "xmls" \notin unwritable)
              => /\ ZeroSummaryStored
                 /\ counters'.errors = counters.errors + 1
                 /\ counters'.updated = counters.updated
                 /\ counters'.not_found = counters.not_found
                 /\ UNCHANGED details]_vars

\* The first person, who had a stored summary of 5000 euros, has been handled
\* with every file writable and a download that failed: the person is counted
\* as updated and the summary in memory now counts nothing.
C30_Witness ==
    /\ pc = "loop"
    /\ i = 2
    /\ unwritable = {}
    /\ elus_file[1].hatvp_complete = StoredResume
    /\ StoredResume.patrimoine_brut_euro = 5000
    /\ "telechargement_echoue" \in log
    /\ parsed = <<>>
    /\ counters.updated = 1
    /\ counters.errors = 0
    /\ counters.not_found = 0
    /\ details["e1"] # None
    /\ details["e1"].instruments_financiers = <<>>
    /\ elus[1].hatvp_complete.patrimoine_brut_euro = 0
    /\ elus[1].hatvp_complete.nb_instruments_financiers = 0
    /\ elus[1].hatvp_complete.nb_declarations_hatvp >= 1

====
